---------------------------- MODULE Spec2Model ----------------------------
(***************************************************************************)
(* RenderForge core: the texture atlas packer (atlas.rs) and the GL state  *)
(* cache with its snapshots (data.rs), as state machines.                  *)
(***************************************************************************)
EXTENDS Integers, Sequences, FiniteSets, TLC

(***************************************************************************)
(* Bounds of the model.                                                    *)
(***************************************************************************)
\* longest texture queue of a set builder, and the number of identifiers
MaxQueue == 3
\* number of manager calls in one run of the GL state machine
MaxOps == 3
\* number of snapshots alive at the same time
MaxSnapshots == 2
\* number of calls made on a matrix stack
MaxMatrixOps == 4
\* number of calls made on a vertex renderer or on a buffer builder
MaxMeshOps == 4
\* number of instanced meshes made in a run
MaxMeshes == 2

VARIABLES
    \* ---- atlas.rs ----
    cfg,            \* AtlasSetBuilder: size, border_padding, rectangle_padding
    texture_queue,  \* AtlasSetBuilder.texture_queue
    apc,            \* position in AtlasSetBuilder: "adding", "loop", "done"
    textures,       \* AtlasSetBuilder::build: the `textures` of line 226
    leftover,       \* AtlasSetBuilder::build: the `textures` bound at line 237
    finalized,      \* AtlasSetBuilder::build: `finalized`, the pages so far
    uploads,        \* device: the sizes of the images given to upload_image
    queued,         \* history: what was in the queue when build() was entered
    ab,             \* an AtlasBuilder: its texture_queue, and whether it is still to be built
    ret,            \* the last call made to a builder or an atlas set, and what it returned
    \* ---- data.rs ----
    st,             \* the GlState record shared by manager and snapshots
    dev,            \* the state of the GL device itself
    calls,          \* the device calls issued by the last manager call
    last,           \* the last manager call: its name and arguments, and whether it panicked
    snaps,          \* the live GlStateSnapshots (their save_state), oldest first
    nops,           \* number of manager calls made
    uhist,          \* history: the value last given to set_uniform, by program and name
    scn,            \* the restore scenario: its phase and what it has done
    rc,             \* the RefCell around the GlState: its live borrows
    ms,             \* a MatrixStack: stack and current
    \* ---- mesh.rs ----
    im,             \* an InstancedMesh: its handles, freed, and whether it was dropped
    vr,             \* a VertexRenderer: buffer, layout, vao, vbo, program
    bb,             \* a BufferBuilder: format, current_vertex, data, shader
    mhist           \* history: counts of the calls made and of the objects deleted

atlasVars == <<cfg, texture_queue, apc, textures, leftover, finalized, uploads, queued, ab, ret>>
glVars == <<st, dev, calls, last, snaps, nops, uhist, scn, rc>>
meshVars == <<ms, im, vr, bb, mhist>>
vars == <<cfg, texture_queue, apc, textures, leftover, finalized, uploads, queued, ab, ret,
          st, dev, calls, last, snaps, nops, uhist, scn, rc, ms, im, vr, bb, mhist>>

Max(a, b) == IF a >= b THEN a ELSE b

(***************************************************************************)
(* rect_packer (the crate atlas.rs drives): a skyline packer.              *)
(*                                                                         *)
(* TLC computes an operator's argument anew wherever the body uses it, so  *)
(* a value that is costly to compute is bound once, as the only element of *)
(* a set: CHOOSE out \in {F(v) : v \in {costly}} : TRUE is F(costly).       *)
(***************************************************************************)
NoRect == [x |-> -1, y |-> -1, width |-> 0, height |-> 0]

\* Rect::contains for the rectangle (0, 0, W, H)
Contains(W, H, r) ==
    /\ 0 <= r.x
    /\ W >= r.x + r.width
    /\ 0 <= r.y
    /\ H >= r.y + r.height

\* DensePacker::can_put: the rectangle (w, h) resting on the skylines from i on
RECURSIVE can_put_loop(_, _, _, _, _)
can_put_loop(p, i, rect, y, width_left) ==
    LET ry == Max(y, p.skylines[i].y)
        r  == [rect EXCEPT !.y = ry]
    IN  IF ~Contains(p.width, p.height, r) THEN NoRect
        ELSE IF p.skylines[i].width >= width_left THEN r
        ELSE can_put_loop(p, i + 1, rect, ry, width_left - p.skylines[i].width)

can_put(p, i, w, h) ==
    can_put_loop(p, i, [x |-> p.skylines[i].left, y |-> 0, width |-> w, height |-> h], 0, w)

\* DensePacker::find_skyline: the lowest, then narrowest, skyline that holds (w, h)
RECURSIVE find_skyline_loop(_, _, _, _, _)
find_skyline_loop(p, w, h, i, best) ==
    IF i > Len(p.skylines) THEN best
    ELSE CHOOSE found \in
             {find_skyline_loop(p, w, h, i + 1, b) :
                 b \in {LET r == can_put(p, i, w, h)
                            better == /\ r # NoRect
                                      /\ \/ best.index = 0
                                         \/ r.y + r.height < best.bottom
                                         \/ /\ r.y + r.height = best.bottom
                                            /\ p.skylines[i].width < best.width
                        IN  IF better
                            THEN [index |-> i, rect |-> r, bottom |-> r.y + r.height,
                                  width |-> p.skylines[i].width]
                            ELSE best}} : TRUE

find_skyline(p, w, h) ==
    find_skyline_loop(p, w, h, 1, [index |-> 0, rect |-> NoRect, bottom |-> 0, width |-> 0])

RemoveAt(s, i) == SubSeq(s, 1, i - 1) \o SubSeq(s, i + 1, Len(s))
InsertAt(s, i, x) == SubSeq(s, 1, i - 1) \o <<x>> \o SubSeq(s, i, Len(s))

\* DensePacker::split: the new skyline on top of the rectangle, shrinking what it covers
RECURSIVE split_loop(_, _)
split_loop(sk, i) ==
    IF i > Len(sk) THEN sk
    ELSE LET right == sk[i - 1].left + sk[i - 1].width
         IN  IF sk[i].left < right
             THEN LET shrink == right - sk[i].left
                  IN  IF sk[i].width <= shrink
                      THEN split_loop(RemoveAt(sk, i), i)
                      ELSE [sk EXCEPT ![i] = [left  |-> sk[i].left + shrink,
                                              y     |-> sk[i].y,
                                              width |-> sk[i].width - shrink]]
             ELSE sk

split(sk, index, rect) ==
    CHOOSE out \in
        {split_loop(s, index + 1) :
            s \in {InsertAt(sk, index, [left  |-> rect.x,
                                        y     |-> rect.y + rect.height,
                                        width |-> rect.width])}} : TRUE

\* DensePacker::merge: neighbouring skylines of the same height become one
RECURSIVE merge_loop(_, _)
merge_loop(sk, i) ==
    IF i > Len(sk) THEN sk
    ELSE IF sk[i - 1].y = sk[i].y
         THEN merge_loop(RemoveAt([sk EXCEPT ![i - 1].width = sk[i - 1].width + sk[i].width], i), i)
         ELSE merge_loop(sk, i + 1)

merge(sk) == CHOOSE out \in {merge_loop(s, 2) : s \in {sk}} : TRUE

\* Packer::new over DensePacker::new
PackerNew(config) ==
    LET width  == Max(0, config.width + config.rectangle_padding - 2 * config.border_padding)
        height == Max(0, config.height + config.rectangle_padding - 2 * config.border_padding)
    IN  [config |-> config, width |-> width, height |-> height,
         skylines |-> <<[left |-> 0, y |-> 0, width |-> width]>>]

\* Packer::can_pack
can_pack(p, w, h) ==
    find_skyline(p, w + p.config.rectangle_padding, h + p.config.rectangle_padding).index # 0

\* Packer::pack, called after can_pack said yes: the rectangle and the packer afterwards
pack(p, w, h) ==
    CHOOSE out \in
        {[rect   |-> [x      |-> f.rect.x + p.config.border_padding,
                      y      |-> f.rect.y + p.config.border_padding,
                      width  |-> f.rect.width - p.config.rectangle_padding,
                      height |-> f.rect.height - p.config.rectangle_padding],
          packer |-> [p EXCEPT !.skylines = merge(split(p.skylines, f.index, f.rect))]] :
            f \in {find_skyline(p, w + p.config.rectangle_padding,
                                h + p.config.rectangle_padding)}} : TRUE

(***************************************************************************)
(* atlas.rs                                                                *)
(***************************************************************************)
PageSize == <<4, 4>>
Ids == 1..MaxQueue
Dims == {<<1, 1>>, <<2, 1>>, <<2, 2>>, <<3, 2>>, <<1, 3>>, <<4, 4>>}
Images == [id : Ids, w : {d[1] : d \in Dims}, h : {d[2] : d \in Dims}]
Configs == {[size |-> PageSize, border_padding |-> b, rectangle_padding |-> r] :
               b \in {0, 1}, r \in {0, 1}}

\* a comparison of the areas that is not reversed
tex_sorter_Unreversed(a, b) ==
    LET aa == a.w * a.h
        ba == b.w * b.h
    IN  IF aa < ba THEN "Less" ELSE IF aa = ba THEN "Equal" ELSE "Greater"

\* AtlasBuilder::tex_sorter: descending pixel area
tex_sorter(a, b) ==
    LET aa == a.w * a.h
        ba == b.w * b.h
    IN  IF aa > ba THEN "Less" ELSE IF aa = ba THEN "Equal" ELSE "Greater"

\* Vec::sort_by(tex_sorter): a stable sort
RECURSIVE sort_by(_)
sort_by(q) ==
    IF q = <<>> THEN <<>>
    ELSE CHOOSE out \in
             {LET x == q[Len(q)]
                  k == Cardinality({i \in 1..Len(s) : tex_sorter(s[i], x) # "Greater"})
              IN  SubSeq(s, 1, k) \o <<x>> \o SubSeq(s, k + 1, Len(s)) :
                 s \in {sort_by(SubSeq(q, 1, Len(q) - 1))}} : TRUE

\* AtlasRect::new
AtlasRectNew(size, rect) == [rect |-> rect, size |-> size]

\* a placement recorded with its two coordinates exchanged
PlacedRect_Transposed(size, rect) ==
    AtlasRectNew(size, <<rect.y, rect.x, rect.width, rect.height>>)

\* a placement recorded with its width and its height exchanged
PlacedRect_SizeSwapped(size, rect) ==
    AtlasRectNew(size, <<rect.x, rect.y, rect.height, rect.width>>)

\* the rectangle AtlasBuilder::build records for a placement
PlacedRect(size, rect) == AtlasRectNew(size, <<rect.x, rect.y, rect.width, rect.height>>)

\* a walk that does not look the id up in the map before it places the texture
RECURSIVE build_walk_NoRecheck(_, _, _, _, _, _, _)
build_walk_NoRecheck(size, sorted, i, packer, rectangle_map, overflow, error_on_overflow) ==
    IF i > Len(sorted)
    THEN [err |-> "none", position_data |-> rectangle_map, overflow |-> overflow]
    ELSE LET t == sorted[i] IN
         IF can_pack(packer, t.w, t.h)
         THEN CHOOSE out \in
                  {build_walk_NoRecheck(size, sorted, i + 1, r.packer,
                                        (t.id :> PlacedRect(size, r.rect)) @@ rectangle_map,
                                        overflow, error_on_overflow) :
                      r \in {pack(packer, t.w, t.h)}} : TRUE
         ELSE IF error_on_overflow
         THEN [err |-> "TextureOverflow", position_data |-> rectangle_map, overflow |-> overflow]
         ELSE CHOOSE out \in
                  {build_walk_NoRecheck(size, sorted, i + 1, packer, rectangle_map, o,
                                        error_on_overflow) : o \in {Append(overflow, t)}} : TRUE

\* AtlasBuilder::build, the walk over the sorted textures from index i on
RECURSIVE build_walk(_, _, _, _, _, _, _)
build_walk(size, sorted, i, packer, rectangle_map, overflow, error_on_overflow) ==
    IF i > Len(sorted)
    THEN [err |-> "none", position_data |-> rectangle_map, overflow |-> overflow]
    ELSE LET t == sorted[i] IN
         IF t.id \in DOMAIN rectangle_map
         THEN [err |-> "DuplicateId", position_data |-> rectangle_map, overflow |-> overflow]
         ELSE IF can_pack(packer, t.w, t.h)
         THEN CHOOSE out \in
                  {build_walk(size, sorted, i + 1, r.packer,
                              (t.id :> PlacedRect(size, r.rect)) @@ rectangle_map,
                              overflow, error_on_overflow) :
                      r \in {pack(packer, t.w, t.h)}} : TRUE
         ELSE IF error_on_overflow
         THEN [err |-> "TextureOverflow", position_data |-> rectangle_map, overflow |-> overflow]
         ELSE CHOOSE out \in
                  {build_walk(size, sorted, i + 1, packer, rectangle_map, o,
                              error_on_overflow) : o \in {Append(overflow, t)}} : TRUE

\* a build that uploads the page cropped to the placements on it
build_UploadsCropped(queue, config, error_on_overflow, glid) ==
    CHOOSE out \in
        {IF walk.err # "none"
         THEN [err |-> walk.err, uploaded |-> <<>>]
         ELSE [err |-> "none",
               uploaded |-> << <<Cardinality(UNION {0..(walk.position_data[k].rect[1]
                                                         + walk.position_data[k].rect[3] - 1) :
                                                     k \in DOMAIN walk.position_data}),
                                 Cardinality(UNION {0..(walk.position_data[k].rect[2]
                                                         + walk.position_data[k].rect[4] - 1) :
                                                     k \in DOMAIN walk.position_data})>> >>,
               atlas |-> [tex_id |-> glid, position_data |-> walk.position_data,
                          size |-> config.size],
               overflow |-> walk.overflow] :
            walk \in {build_walk(config.size, textures_sorted, 1, packer, <<>>, <<>>,
                                 error_on_overflow) :
                         textures_sorted \in {sort_by(queue)},
                         packer \in {PackerNew([width  |-> config.size[1],
                                                height |-> config.size[2],
                                                border_padding |-> config.border_padding,
                                                rectangle_padding |-> config.rectangle_padding])}}} :
        TRUE

\* a build whose walk starts at the second of the sorted textures
build_SkipsFirst(queue, config, error_on_overflow, glid) ==
    CHOOSE out \in
        {IF walk.err # "none"
         THEN [err |-> walk.err, uploaded |-> <<>>]
         ELSE [err |-> "none",
               uploaded |-> <<config.size>>,
               atlas |-> [tex_id |-> glid, position_data |-> walk.position_data,
                          size |-> config.size],
               overflow |-> walk.overflow] :
            walk \in {build_walk(config.size, textures_sorted, 2, packer, <<>>, <<>>,
                                 error_on_overflow) :
                         textures_sorted \in {sort_by(queue)},
                         packer \in {PackerNew([width  |-> config.size[1],
                                                height |-> config.size[2],
                                                border_padding |-> config.border_padding,
                                                rectangle_padding |-> config.rectangle_padding])}}} :
        TRUE

\* AtlasBuilder::build: the atlas (with the handle of its upload) and what did not fit
build(queue, config, error_on_overflow, glid) ==
    CHOOSE out \in
        {IF walk.err # "none"
         THEN [err |-> walk.err, uploaded |-> <<>>]
         ELSE [err |-> "none",
               uploaded |-> <<config.size>>,
               atlas |-> [tex_id |-> glid, position_data |-> walk.position_data,
                          size |-> config.size],
               overflow |-> walk.overflow] :
            walk \in {build_walk(config.size, textures_sorted, 1, packer, <<>>, <<>>,
                                 error_on_overflow) :
                         textures_sorted \in {sort_by(queue)},
                         packer \in {PackerNew([width  |-> config.size[1],
                                                height |-> config.size[2],
                                                border_padding |-> config.border_padding,
                                                rectangle_padding |-> config.rectangle_padding])}}} :
        TRUE

\* an overflow-tolerant build that asks for the strict walk
build_overflow_Strict(queue, config, glid) == build(queue, config, TRUE, glid)

\* AtlasBuilder::build_overflow
build_overflow(queue, config, glid) == build(queue, config, FALSE, glid)

\* a strict build that asks for the tolerant walk and checks for leftovers
\* once the page is built and uploaded
build_strict_ChecksAfterwards(queue, config, glid) ==
    CHOOSE out \in
        {IF r.err = "none" /\ r.overflow = <<>>
         THEN [err |-> "none", uploaded |-> r.uploaded, atlas |-> r.atlas]
         ELSE [err |-> IF r.err = "none" THEN "TextureOverflow" ELSE r.err,
               uploaded |-> r.uploaded] :
            r \in {build(queue, config, FALSE, glid)}} : TRUE

\* AtlasBuilder::build_strict
build_strict(queue, config, glid) ==
    CHOOSE out \in
        {IF r.err = "none"
         THEN [err |-> "none", uploaded |-> r.uploaded, atlas |-> r.atlas]
         ELSE [err |-> r.err, uploaded |-> r.uploaded] :
            r \in {build(queue, config, TRUE, glid)}} : TRUE

\* an add that reports the duplicate and queues it all the same
add_QueuesDuplicate(queue, id, w, h) ==
    [err   |-> IF \E i \in 1..Len(queue) : queue[i].id = id THEN "DuplicateId" ELSE "none",
     queue |-> Append(queue, [id |-> id, w |-> w, h |-> h])]

\* AtlasBuilder::add: the error returned and the queue left
add(queue, id, w, h) ==
    IF \E i \in 1..Len(queue) : queue[i].id = id
    THEN [err |-> "DuplicateId", queue |-> queue]
    ELSE [err |-> "none", queue |-> Append(queue, [id |-> id, w |-> w, h |-> h])]

\* the outcome of a call that returns nothing but success or an error
Returned(op, args, err) == [op |-> op, args |-> args, err |-> err]

\* AtlasSetBuilder::add
SetAdd(id, w, h) ==
    /\ apc = "adding"
    /\ Len(texture_queue) < MaxQueue
    /\ texture_queue' =
           IF \E i \in 1..Len(texture_queue) : texture_queue[i].id = id
           THEN texture_queue
           ELSE Append(texture_queue, [id |-> id, w |-> w, h |-> h])
    /\ ret' = Returned("AtlasSetBuilder::add", <<id, w, h>>,
                       IF \E i \in 1..Len(texture_queue) : texture_queue[i].id = id
                       THEN "DuplicateId" ELSE "none")
    /\ UNCHANGED <<cfg, apc, textures, leftover, finalized, uploads, queued, ab>>
    /\ UNCHANGED <<glVars, meshVars>>

\* ids are compared for equality only: a new texture takes the next free id
SetAddTexture ==
    \E id \in Ids \cap (1..(Len(texture_queue) + 1)), d \in Dims : SetAdd(id, d[1], d[2])

\* AtlasSetBuilder::build, up to the loop
SetBuildBegin ==
    /\ apc = "adding"
    /\ finalized' = <<>>
    /\ textures' = texture_queue
    /\ texture_queue' = <<>>
    /\ queued' = texture_queue
    /\ apc' = "loop"
    /\ ret' = Returned("AtlasSetBuilder::build", <<>>, "none")
    /\ UNCHANGED <<cfg, leftover, uploads, ab>>
    /\ UNCHANGED <<glVars, meshVars>>

\* a loop that tests the vector it has just emptied instead of the leftovers
SetBuildLoop_BreaksOnTs(ts, config, glid) ==
    CHOOSE out \in
        {[textures |-> <<>>,
          leftover |-> r.overflow,
          atlas    |-> r.atlas,
          uploaded |-> r.uploaded,
          done     |-> TRUE] : r \in {build_overflow(ts, config, glid)}} : TRUE

\* a loop that hands every page the whole queue again
SetBuildLoop_KeepsQueue(ts, config, glid) ==
    CHOOSE out \in
        {[textures |-> ts,
          leftover |-> r.overflow,
          atlas    |-> r.atlas,
          uploaded |-> r.uploaded,
          done     |-> r.overflow = <<>>] : r \in {build_overflow(ts, config, glid)}} : TRUE

\* what one iteration of the loop of AtlasSetBuilder::build leaves behind
SetBuildLoop(ts, config, glid) ==
    CHOOSE out \in
        {[textures |-> <<>>,
          leftover |-> r.overflow,
          atlas    |-> r.atlas,
          uploaded |-> r.uploaded,
          done     |-> r.overflow = <<>>] : r \in {build_overflow(ts, config, glid)}} : TRUE

\* AtlasSetBuilder::build, one iteration of the loop
SetBuildIter ==
    /\ apc = "loop"
    /\ \E it \in {SetBuildLoop(textures, cfg, Len(uploads) + 1)} :
           /\ textures' = it.textures
           /\ leftover' = it.leftover
           /\ finalized' = Append(finalized, it.atlas)
           /\ uploads' = uploads \o it.uploaded
           /\ apc' = IF it.done THEN "done" ELSE "loop"
    /\ UNCHANGED <<cfg, texture_queue, queued, ab, ret>>
    /\ UNCHANGED <<glVars, meshVars>>

\* AtlasRect::uvs: the four quotients, each as <<dividend, divisor>>
uvs(r) ==
    << <<r.rect[1], r.size[1]>>,
       <<r.rect[2], r.size[2]>>,
       <<r.rect[3], r.size[1]>>,
       <<r.rect[4], r.size[2]>> >>

\* Atlas::has_texture
has_texture(a, id) == id \in DOMAIN a.position_data

\* Atlas::get_rect, of an identifier the atlas holds
get_rect(a, id) == a.position_data[id]

\* Atlas::get_id
get_id(a) == a.tex_id

\* Option::None
None == [some |-> FALSE]

\* a query that answers with the handle of the newest page
get_id_and_rect_NewestHandle(atlases, id, i) ==
    IF \E k \in i..Len(atlases) : has_texture(atlases[k], id)
    THEN [some |-> TRUE, id |-> get_id(atlases[Len(atlases)]),
          rect |-> get_rect(atlases[CHOOSE k \in i..Len(atlases) : has_texture(atlases[k], id)],
                            id)]
    ELSE None

\* AtlasSet::get_id_and_rect: the loop over the pages, from page i on
RECURSIVE get_id_and_rect(_, _, _)
get_id_and_rect(atlases, id, i) ==
    IF i > Len(atlases) THEN None
    ELSE IF has_texture(atlases[i], id)
    THEN [some |-> TRUE, id |-> get_id(atlases[i]), rect |-> get_rect(atlases[i], id)]
    ELSE get_id_and_rect(atlases, id, i + 1)

\* AtlasSet::get_id_and_rect, on the set that build returned
GetIdAndRect ==
    /\ apc = "done"
    /\ \E id \in Ids :
           ret' = [op |-> "get_id_and_rect", args |-> <<id>>, err |-> "none",
                   value |-> get_id_and_rect(finalized, id, 1)]
    /\ UNCHANGED <<cfg, texture_queue, apc, textures, leftover, finalized, uploads, queued, ab>>
    /\ UNCHANGED <<glVars, meshVars>>

(***************************************************************************)
(* data.rs: the enums of the state record and their GL names               *)
(***************************************************************************)
\* CullFace::to_gl
CullFace_to_gl(f) ==
    CASE f = "Back"         -> "GL_BACK"
      [] f = "Front"        -> "GL_FRONT"
      [] f = "FrontAndBack" -> "GL_FRONT_AND_BACK"

\* Winding::to_gl
Winding_to_gl(w) ==
    CASE w = "CW"  -> "GL_CW"
      [] w = "CCW" -> "GL_CCW"

\* BlendFactor::to_gl
BlendFactor_to_gl(f) ==
    CASE f = "Zero"                  -> "GL_ZERO"
      [] f = "One"                   -> "GL_ONE"
      [] f = "SrcColor"              -> "GL_SRC_COLOR"
      [] f = "OneMinusSrcColor"      -> "GL_ONE_MINUS_SRC_COLOR"
      [] f = "DstColor"              -> "GL_DST_COLOR"
      [] f = "OneMinusDstColor"      -> "GL_ONE_MINUS_DST_COLOR"
      [] f = "SrcAlpha"              -> "GL_SRC_ALPHA"
      [] f = "OneMinusSrcAlpha"      -> "GL_ONE_MINUS_SRC_ALPHA"
      [] f = "DstAlpha"              -> "GL_DST_ALPHA"
      [] f = "OneMinusDstAlpha"      -> "GL_ONE_MINUS_DST_ALPHA"
      [] f = "ConstantColor"         -> "GL_CONSTANT_COLOR"
      [] f = "OneMinusConstantColor" -> "GL_ONE_MINUS_CONSTANT_COLOR"
      [] f = "ConstantAlpha"         -> "GL_CONSTANT_ALPHA"
      [] f = "OneMinusConstantAlpha" -> "GL_ONE_MINUS_CONSTANT_ALPHA"

\* SrcRgb::Factor
Factor(f) == [kind |-> "Factor", factor |-> f]

\* SrcRgb::to_gl
SrcRgb_to_gl(sf) ==
    IF sf.kind = "Factor" THEN BlendFactor_to_gl(sf.factor) ELSE "GL_SRC_ALPHA_SATURATE"

\* RgbEquation::to_gl, AlphaEquation::to_gl
Equation_to_gl(e) ==
    CASE e = "Add"             -> "GL_FUNC_ADD"
      [] e = "Subtract"        -> "GL_FUNC_SUBTRACT"
      [] e = "ReverseSubtract" -> "GL_FUNC_REVERSE_SUBTRACT"
      [] e = "Min"             -> "GL_MIN"
      [] e = "Max"             -> "GL_MAX"

(***************************************************************************)
(* The GL device, as far as the state record mirrors it.                   *)
(***************************************************************************)
Programs == 0..2
Vaos == 0..1
Fbos == 0..1
\* a name is the sequence of the bytes of a String: "mvp", and "a\0b", which
\* holds a NUL byte
mvp == <<109, 118, 112>>
a_nul_b == <<97, 0, 98>>
UniformNames == {mvp, a_nul_b}
\* GLUniform::F32(f32::NAN)
NaN == [kind |-> "F32", nan |-> TRUE]
\* a Vec2, Vec3, Vec4 or Mat4 holds its floats in `components` (the sixteen of
\* to_cols_array for a Mat4), written as decimals, a NaN among them as "NaN":
\* GLUniform::Vec3(vec3(1.0, f32::NAN, 3.0)) and GLUniform::Vec2(vec2(1.0, 0.0))
UniformValues ==
    {[kind |-> "F32", val |-> 1], [kind |-> "F32", val |-> 2], NaN,
     [kind |-> "Vec3", components |-> <<"1", "NaN", "3">>],
     [kind |-> "Vec2", components |-> <<"1", "0">>]}

\* a map with no entry
EmptyMap == <<>>

\* the state of a fresh GL context
DeviceNew ==
    [depth_test           |-> FALSE,
     depth_writemask      |-> TRUE,
     cull_face            |-> FALSE,
     cull_face_mode       |-> "GL_BACK",
     front_face           |-> "GL_CCW",
     blend                |-> FALSE,
     blend_src_rgb        |-> "GL_ONE",
     blend_dst_rgb        |-> "GL_ZERO",
     blend_src_alpha      |-> "GL_ONE",
     blend_dst_alpha      |-> "GL_ZERO",
     blend_equation_rgb   |-> "GL_FUNC_ADD",
     blend_equation_alpha |-> "GL_FUNC_ADD",
     current_program      |-> 0,
     vertex_array_binding |-> 0,
     framebuffer_binding  |-> 0,
     uniforms             |-> [p \in Programs \ {0} |-> EmptyMap]]

\* the calls that give a uniform of the program in use its value
UniformCalls == {"UniformMatrix4fv", "Uniform1f", "Uniform2f", "Uniform3f", "Uniform4f",
                 "Uniform1i", "Uniform2i", "Uniform3i", "Uniform4i"}

\* what a GL call does to the device
gl(d, fn, args) ==
    CASE fn = "Enable" ->
            (CASE args[1] = "GL_DEPTH_TEST" -> [d EXCEPT !.depth_test = TRUE]
               [] args[1] = "GL_CULL_FACE"  -> [d EXCEPT !.cull_face = TRUE]
               [] args[1] = "GL_BLEND"      -> [d EXCEPT !.blend = TRUE])
      [] fn = "Disable" ->
            (CASE args[1] = "GL_DEPTH_TEST" -> [d EXCEPT !.depth_test = FALSE]
               [] args[1] = "GL_CULL_FACE"  -> [d EXCEPT !.cull_face = FALSE]
               [] args[1] = "GL_BLEND"      -> [d EXCEPT !.blend = FALSE])
      [] fn = "DepthMask" -> [d EXCEPT !.depth_writemask = args[1]]
      [] fn = "CullFace"  -> [d EXCEPT !.cull_face_mode = args[1]]
      [] fn = "FrontFace" -> [d EXCEPT !.front_face = args[1]]
      \* glBlendFuncSeparate(srcRGB, dstRGB, srcAlpha, dstAlpha)
      [] fn = "BlendFuncSeparate" ->
            [d EXCEPT !.blend_src_rgb = args[1], !.blend_dst_rgb = args[2],
                      !.blend_src_alpha = args[3], !.blend_dst_alpha = args[4]]
      \* glBlendFunc(sfactor, dfactor) sets the RGB and the alpha factors
      [] fn = "BlendFunc" ->
            [d EXCEPT !.blend_src_rgb = args[1], !.blend_dst_rgb = args[2],
                      !.blend_src_alpha = args[1], !.blend_dst_alpha = args[2]]
      \* glBlendEquationSeparate(modeRGB, modeAlpha)
      [] fn = "BlendEquationSeparate" ->
            [d EXCEPT !.blend_equation_rgb = args[1], !.blend_equation_alpha = args[2]]
      [] fn = "UseProgram"      -> [d EXCEPT !.current_program = args[1]]
      [] fn = "BindVertexArray" -> [d EXCEPT !.vertex_array_binding = args[1]]
      [] fn = "BindFramebuffer" -> [d EXCEPT !.framebuffer_binding = args[2]]
      \* a query: the device is left as it is
      [] fn = "GetUniformLocation" -> d
      \* glUniform*(location, value) writes to the program in use
      [] fn \in UniformCalls ->
            IF d.current_program # 0 /\ args[1] # "-1"
            THEN [d EXCEPT !.uniforms[d.current_program] = (args[1] :> args[2]) @@ @]
            ELSE d
      \* the program object goes, and its uniform values with it
      [] fn = "DeleteProgram" ->
            IF args[1] # 0 THEN [d EXCEPT !.uniforms[args[1]] = EmptyMap] ELSE d
      \* deleting the bound vertex array reverts the binding to zero
      [] fn = "DeleteVertexArrays" ->
            IF args[1] # 0 /\ d.vertex_array_binding = args[1]
            THEN [d EXCEPT !.vertex_array_binding = 0]
            ELSE d
      [] fn \in {"DeleteBuffers", "ActiveTexture", "BindTexture", "BindSampler"} -> d
      \* buffers, vertex attributes and draws: none of the state kept here
      [] fn \in {"GenVertexArrays", "GenBuffers", "BindBuffer", "BufferData",
                 "EnableVertexAttribArray", "DisableVertexAttribArray",
                 "VertexAttribPointer", "VertexAttribDivisor", "DrawArrays"} -> d

\* the calls that ask the device something and change nothing
Queries == {"GetUniformLocation"}

\* glGetUniformLocation: the location of a name in a program (-1 without a program)
NoLocation == "-1"
UniformLocation(program, name) == IF program = 0 THEN NoLocation ELSE name

\* the manager's record `s`, the device `d`, the device calls made so far in
\* the current manager call and whether the call has panicked; Gl makes one
\* more device call
Gl(w, fn, args) ==
    [w EXCEPT !.d = gl(w.d, fn, args), !.log = Append(@, [fn |-> fn, args |-> args])]

(***************************************************************************)
(* data.rs: impl GlState                                                   *)
(***************************************************************************)
\* GlState::new
GlStateNew ==
    [depth   |-> [enabled |-> FALSE, func |-> "Less", mask |-> TRUE],
     cull    |-> [enabled |-> FALSE, face |-> "Back", front_face |-> "CCW"],
     blend   |-> [enabled |-> FALSE,
                  src_rgb |-> Factor("One"), src_alpha |-> "One",
                  dst_rgb |-> "Zero", dst_alpha |-> "Zero",
                  rgb_equation |-> "Add", alpha_equation |-> "Add"],
     stencil |-> [enabled |-> FALSE, func |-> "Always", reference |-> 0, mask |-> "0xFFFFFFFF",
                  fail_op |-> "Keep", z_fail_op |-> "Keep", z_pass_op |-> "Keep",
                  face |-> "FrontAndBack"],
     raster  |-> [scissor_test |-> FALSE, scissor_box |-> <<0, 0, 8096, 8096>>,
                  viewport |-> <<0, 0, 8096, 8096>>],
     vao |-> 0, fbo |-> 0, program |-> 0, framebuffer |-> 0,
     uniforms |-> EmptyMap]

depth_test(w, enabled) ==
    IF w.s.depth.enabled # enabled
    THEN Gl([w EXCEPT !.s.depth.enabled = enabled],
            IF enabled THEN "Enable" ELSE "Disable", <<"GL_DEPTH_TEST">>)
    ELSE w

depth_mask(w, enabled) ==
    IF w.s.depth.mask # enabled
    THEN Gl([w EXCEPT !.s.depth.mask = enabled], "DepthMask", <<enabled>>)
    ELSE w

culling(w, enabled) ==
    IF w.s.cull.enabled # enabled
    THEN Gl([w EXCEPT !.s.cull.enabled = enabled],
            IF enabled THEN "Enable" ELSE "Disable", <<"GL_CULL_FACE">>)
    ELSE w

cull_face(w, face) ==
    IF w.s.cull.face # face
    THEN Gl([w EXCEPT !.s.cull.face = face], "CullFace", <<CullFace_to_gl(face)>>)
    ELSE w

front_face(w, winding) ==
    IF w.s.cull.front_face # winding
    THEN Gl([w EXCEPT !.s.cull.front_face = winding], "FrontFace", <<Winding_to_gl(winding)>>)
    ELSE w

blending(w, enabled) ==
    IF w.s.blend.enabled # enabled
    THEN Gl([w EXCEPT !.s.blend.enabled = enabled],
            IF enabled THEN "Enable" ELSE "Disable", <<"GL_BLEND">>)
    ELSE w

blend_func_separate(w, src_rgb, src_alpha, dst_rgb, dst_alpha) ==
    IF \/ w.s.blend.src_rgb # src_rgb
       \/ w.s.blend.src_alpha # src_alpha
       \/ w.s.blend.dst_rgb # dst_rgb
       \/ w.s.blend.dst_alpha # dst_alpha
    THEN Gl([w EXCEPT !.s.blend.src_rgb = src_rgb, !.s.blend.src_alpha = src_alpha,
                      !.s.blend.dst_rgb = dst_rgb, !.s.blend.dst_alpha = dst_alpha],
            "BlendFuncSeparate",
            <<SrcRgb_to_gl(src_rgb), BlendFactor_to_gl(src_alpha),
              BlendFactor_to_gl(dst_rgb), BlendFactor_to_gl(dst_alpha)>>)
    ELSE w

blend_func_both(w, src, dst) == blend_func_separate(w, Factor(src), src, dst, dst)

blend_func_rgb(w, src_rgb, dst_rgb) ==
    IF w.s.blend.src_rgb # src_rgb \/ w.s.blend.dst_rgb # dst_rgb
    THEN Gl([w EXCEPT !.s.blend.src_rgb = src_rgb, !.s.blend.dst_rgb = dst_rgb],
            "BlendFunc", <<SrcRgb_to_gl(src_rgb), BlendFactor_to_gl(dst_rgb)>>)
    ELSE w

blend_equation(w, rgb_equation, alpha_equation) ==
    IF w.s.blend.rgb_equation # rgb_equation \/ w.s.blend.alpha_equation # alpha_equation
    THEN Gl([w EXCEPT !.s.blend.rgb_equation = rgb_equation,
                      !.s.blend.alpha_equation = alpha_equation],
            "BlendEquationSeparate",
            <<Equation_to_gl(rgb_equation), Equation_to_gl(alpha_equation)>>)
    ELSE w

blend_func(w, src_rgb, src_alpha, dst_rgb, dst_alpha, rgb_equation, alpha_equation) ==
    blend_equation(blend_func_separate(w, src_rgb, src_alpha, dst_rgb, dst_alpha),
                   rgb_equation, alpha_equation)

use_program(w, program) ==
    IF w.s.program # program
    THEN Gl([w EXCEPT !.s.program = program], "UseProgram", <<program>>)
    ELSE w

bind_vao(w, vao) ==
    IF w.s.vao # vao
    THEN Gl([w EXCEPT !.s.vao = vao], "BindVertexArray", <<vao>>)
    ELSE w

bind_fbo(w, fbo) ==
    IF w.s.fbo # fbo
    THEN Gl(w, "BindFramebuffer", <<"GL_FRAMEBUFFER", fbo>>)
    ELSE w

\* GLUniform::upload: the call the match picks for the kind of the value
UniformCall(kind) ==
    CASE kind = "Mat4"  -> "UniformMatrix4fv"
      [] kind = "F32"   -> "Uniform1f"
      [] kind = "Vec2"  -> "Uniform2f"
      [] kind = "Vec3"  -> "Uniform3f"
      [] kind = "Vec4"  -> "Uniform4f"
      [] kind = "I32"   -> "Uniform1i"
      [] kind = "IVec2" -> "Uniform2i"
      [] kind = "IVec3" -> "Uniform3i"
      [] kind = "IVec4" -> "Uniform4i"

\* GLUniform::upload
upload(w, value, loc) == Gl(w, UniformCall(value.kind), <<loc, value>>)

\* the value holds an f32 NaN: the F32 itself, or a component of a vector or
\* of a matrix of floats
HasNaN(value) ==
    CASE value.kind = "F32" -> value = NaN
      [] value.kind \in {"Vec2", "Vec3", "Vec4", "Mat4"} ->
             \E i \in DOMAIN value.components : value.components[i] = "NaN"
      [] OTHER -> FALSE

\* PartialEq for GLUniform, derived: the same variant with equal fields, the
\* fields compared as f32 where they are floats, so that a NaN, alone or as a
\* component, equals nothing, itself included
GLUniform_eq(a, b) == a.kind = b.kind /\ a = b /\ ~HasNaN(a)

\* CString::new: the bytes as a C string, or an error when one of them is NUL
CString_new(bytes) ==
    IF \E i \in DOMAIN bytes : bytes[i] = 0
    THEN [err |-> "NulError"]
    ELSE [err |-> "none", value |-> bytes]

\* the name can be made a C string: none of its bytes is NUL
NoNul(name) == CString_new(name).err = "none"

\* set_uniform, from the lookup of the name on: `w` has a map for the program
\* in use.  unwrap panics on the error of CString::new: when the name is in
\* the map, before the device is asked anything and before the insert; when
\* it is not, after the insert.
set_uniform_in(w, name, value) ==
    LET program  == w.s.program
        uniforms == w.s.uniforms[program]
        cstr     == CString_new(name)
        inserted == [w EXCEPT !.s.uniforms[program] = (name :> value) @@ uniforms]
    IN  IF name \in DOMAIN uniforms
        THEN IF ~GLUniform_eq(uniforms[name], value)
             THEN IF cstr.err # "none"
                  THEN [w EXCEPT !.panic = TRUE]
                  ELSE LET located  == Gl(w, "GetUniformLocation", <<program, cstr.value>>)
                           uploaded == upload(located, value, UniformLocation(program, name))
                       IN  [uploaded EXCEPT !.s.uniforms[program] = (name :> value) @@ uniforms]
             ELSE w
        ELSE IF cstr.err # "none"
             THEN [inserted EXCEPT !.panic = TRUE]
             ELSE upload(Gl(inserted, "GetUniformLocation", <<program, cstr.value>>),
                         value, UniformLocation(program, name))

set_uniform(w, name, value) ==
    set_uniform_in(IF w.s.program \notin DOMAIN w.s.uniforms
                   THEN [w EXCEPT !.s.uniforms = (w.s.program :> EmptyMap) @@ @]
                   ELSE w,
                   name, value)

bind_texture(w, slot, tex) ==
    Gl(Gl(w, "ActiveTexture", <<slot>>), "BindTexture", <<"GL_TEXTURE_2D", tex>>)

bind_sampler(w, slot, sampler) == Gl(w, "BindSampler", <<slot, sampler>>)

\* HashMap::remove
MapRemove(m, k) == [x \in DOMAIN m \ {k} |-> m[x]]

destroy_program(w, program) ==
    LET unbound == IF w.s.program = program THEN use_program(w, 0) ELSE w
    IN  Gl([unbound EXCEPT !.s.uniforms = MapRemove(@, program)], "DeleteProgram", <<program>>)

destroy_vbo_vec(w, vbos) == Gl(w, "DeleteBuffers", <<Len(vbos), vbos>>)

destroy_vbo_box_array(w, vbos) == Gl(w, "DeleteBuffers", <<Len(vbos), vbos>>)

destroy_vao(w, vao) == Gl(w, "DeleteVertexArrays", <<vao>>)

\* a restore that binds the saved program whatever the record holds
set_state_Rebinds(w, state) ==
    LET w1 == Gl([w EXCEPT !.s.program = state.program], "UseProgram", <<state.program>>)
        w2 == bind_fbo(w1, state.fbo)
        w3 == bind_vao(w2, state.vao)
        w4 == blend_func(w3, state.blend.src_rgb, state.blend.src_alpha, state.blend.dst_rgb,
                         state.blend.dst_alpha, state.blend.rgb_equation,
                         state.blend.alpha_equation)
        w5 == blending(w4, state.blend.enabled)
        w6 == depth_test(w5, state.depth.enabled)
        w7 == depth_mask(w6, state.depth.mask)
        w8 == culling(w7, state.cull.enabled)
    IN  cull_face(w8, state.cull.face)

set_state(w, state) ==
    LET w1 == use_program(w, state.program)
        w2 == bind_fbo(w1, state.fbo)
        w3 == bind_vao(w2, state.vao)
        w4 == blend_func(w3, state.blend.src_rgb, state.blend.src_alpha, state.blend.dst_rgb,
                         state.blend.dst_alpha, state.blend.rgb_equation,
                         state.blend.alpha_equation)
        w5 == blending(w4, state.blend.enabled)
        w6 == depth_test(w5, state.depth.enabled)
        w7 == depth_mask(w6, state.depth.mask)
        w8 == culling(w7, state.cull.enabled)
    IN  cull_face(w8, state.cull.face)

(***************************************************************************)
(* data.rs: GlStateManager and GlStateSnapshot                             *)
(***************************************************************************)
CullFaces == {"Back", "Front"}
Windings == {"CW", "CCW"}
BlendSeparateArgs == {<<Factor("One"), "One", "Zero", "Zero">>,
                      <<Factor("SrcAlpha"), "One", "OneMinusSrcAlpha", "Zero">>}
BlendBothArgs == {<<"One", "Zero">>, <<"SrcAlpha", "OneMinusSrcAlpha">>}
BlendRgbArgs == {<<Factor("One"), "Zero">>, <<Factor("SrcAlpha"), "OneMinusSrcAlpha">>}
BlendEquationArgs == {<<"Add", "Add">>, <<"Subtract", "Add">>}
BlendFuncArgs == {a \o e : a \in BlendSeparateArgs, e \in BlendEquationArgs}

\* the record and the device as a manager call finds them
World == [s |-> st, d |-> dev, log |-> <<>>, panic |-> FALSE]

\* the delegate! block of GlStateManager: the method of GlState each call runs
Delegate(w, op, args) ==
    CASE op = "depth_test"            -> depth_test(w, args[1])
      [] op = "depth_mask"            -> depth_mask(w, args[1])
      [] op = "culling"               -> culling(w, args[1])
      [] op = "cull_face"             -> cull_face(w, args[1])
      [] op = "front_face"            -> front_face(w, args[1])
      [] op = "blending"              -> blending(w, args[1])
      [] op = "blend_func_both"       -> blend_func_both(w, args[1], args[2])
      [] op = "blend_func"            -> blend_func(w, args[1], args[2], args[3], args[4],
                                                    args[5], args[6])
      [] op = "blend_func_separate"   -> blend_func_separate(w, args[1], args[2], args[3], args[4])
      [] op = "blend_func_rgb"        -> blend_func_rgb(w, args[1], args[2])
      [] op = "blend_equation"        -> blend_equation(w, args[1], args[2])
      [] op = "use_program"           -> use_program(w, args[1])
      [] op = "bind_vao"              -> bind_vao(w, args[1])
      [] op = "bind_fbo"              -> bind_fbo(w, args[1])
      [] op = "set_uniform"           -> set_uniform(w, args[1], args[2])
      [] op = "bind_texture"          -> bind_texture(w, args[1], args[2])
      [] op = "bind_sampler"          -> bind_sampler(w, args[1], args[2])
      [] op = "destroy_program"       -> destroy_program(w, args[1])
      [] op = "destroy_vbo_vec"       -> destroy_vbo_vec(w, args[1])
      [] op = "destroy_vbo_box_array" -> destroy_vbo_box_array(w, args[1])
      [] op = "destroy_vao"           -> destroy_vao(w, args[1])
      [] op = "set_state"             -> set_state(w, args[1])

\* what the callers have asked of the uniforms: for a program and a name, the
\* value last given to set_uniform, and whether another program was bound since
UhistAfter(op, args, w) ==
    CASE op = "set_uniform" ->
            IF <<st.program, args[1]>> \in DOMAIN uhist
               /\ uhist[<<st.program, args[1]>>].val = args[2]
            THEN uhist
            ELSE (<<st.program, args[1]>> :> [val |-> args[2], away |-> FALSE]) @@ uhist
      [] op = "destroy_program" ->
            [k \in {x \in DOMAIN uhist : x[1] # args[1]} |-> uhist[k]]
      [] OTHER ->
            [k \in DOMAIN uhist |->
                [uhist[k] EXCEPT !.away = @ \/ (k[1] = st.program /\ w.s.program # st.program)]]

\* RefCell::new
RcNew == [readers |-> 0, writer |-> FALSE, panicked |-> FALSE]

\* RefCell::borrow_mut panics unless no borrow is live
can_borrow_mut(r) == r.readers = 0 /\ ~r.writer

\* RefCell::borrow panics while a mutable borrow is live
can_borrow(r) == ~r.writer

\* RefCell::borrow_mut that is not refused: the cell while the RefMut is live.
\* In `self.state.borrow_mut().f(..)` the RefMut is a temporary of the
\* statement, live for the whole of f.
borrow_mut(r) == [r EXCEPT !.writer = TRUE]

\* the drop of the RefMut, at the end of the statement or in an unwinding
drop_ref_mut(r) == [r EXCEPT !.writer = FALSE]

\* the cell once `self.state.borrow().clone()` has returned: the Ref is a
\* temporary of the statement
clone_borrow(r) == r

\* a borrow the cell refuses: the call panics before it does anything
Panic(op, args) ==
    /\ rc' = [rc EXCEPT !.panicked = TRUE]
    /\ last' = [op |-> op, args |-> args, panic |-> TRUE]
    /\ calls' = <<>>
    /\ UNCHANGED <<st, dev, uhist>>

\* one call of a method of the manager.  When the method panics, the record
\* keeps what the method wrote before it, and the unwinding ends the borrow.
Call(op, args) ==
    IF can_borrow_mut(rc)
    THEN LET w == Delegate(World, op, args)
         IN  /\ st' = w.s
             /\ dev' = w.d
             /\ calls' = w.log
             /\ last' = [op |-> op, args |-> args, panic |-> w.panic]
             /\ uhist' = UhistAfter(op, args, w)
             /\ rc' = drop_ref_mut(borrow_mut(rc))
    ELSE Panic(op, args)

\* a call that leaves every live snapshot holding the record the call has
\* written, as snapshots that shared the record with the manager would
Manager_SharesRecord(op, args) ==
    /\ nops < MaxOps
    /\ Call(op, args)
    /\ nops' = nops + 1
    /\ snaps' = [i \in 1..Len(snaps) |-> st']
    /\ UNCHANGED scn
    /\ UNCHANGED <<atlasVars, meshVars>>

\* set_uniform with a name that drops the i-th live snapshot, inside the
\* statement that holds the RefMut of the manager: Drop for GlStateSnapshot
\* calls borrow_mut on the same cell (data.rs:758), which is refused and
\* panics.  The name drops the snapshot either in to_string, the first
\* statement of GlState::set_uniform (data.rs:628), before anything is written,
\* or, when it owns the snapshot, as the parameter that lives to the end of
\* the function (data.rs:627-652), after the upload and the insert.  When the
\* function itself panics, on a name with a NUL byte, the parameter is dropped
\* by the unwinding and the second panic ends the process: no call follows.
SetUniformDroppingSnapshot ==
    /\ nops < MaxOps
    /\ can_borrow_mut(rc)
    /\ \E n \in UniformNames, v \in UniformValues, i \in 1..Len(snaps) :
           /\ ~can_borrow_mut(borrow_mut(rc))
           /\ snaps' = RemoveAt(snaps, i)
           /\ \/ /\ Panic("set_uniform", <<n, v>>)
                 /\ nops' = nops + 1
              \/ LET w == Delegate(World, "set_uniform", <<n, v>>)
                 IN  /\ st' = w.s
                     /\ dev' = w.d
                     /\ calls' = w.log
                     /\ uhist' = UhistAfter("set_uniform", <<n, v>>, w)
                     /\ last' = [op |-> "set_uniform", args |-> <<n, v>>, panic |-> TRUE]
                     /\ rc' = [drop_ref_mut(borrow_mut(rc)) EXCEPT !.panicked = TRUE]
                     /\ nops' = IF w.panic THEN MaxOps ELSE nops + 1
    /\ UNCHANGED scn
    /\ UNCHANGED <<atlasVars, meshVars>>

\* a call in a run of at most MaxOps calls
Manager(op, args) ==
    /\ nops < MaxOps
    /\ Call(op, args)
    /\ nops' = nops + 1
    /\ UNCHANGED <<snaps, scn>>
    /\ UNCHANGED <<atlasVars, meshVars>>

DepthTest == \E e \in BOOLEAN : Manager("depth_test", <<e>>)
DepthMask == \E e \in BOOLEAN : Manager("depth_mask", <<e>>)
Culling == \E e \in BOOLEAN : Manager("culling", <<e>>)
CullFace == \E f \in CullFaces : Manager("cull_face", <<f>>)
FrontFace == \E x \in Windings : Manager("front_face", <<x>>)
Blending == \E e \in BOOLEAN : Manager("blending", <<e>>)
BlendFuncBoth == \E a \in BlendBothArgs : Manager("blend_func_both", a)
BlendFunc == \E a \in BlendFuncArgs : Manager("blend_func", a)
BlendFuncSeparate == \E a \in BlendSeparateArgs : Manager("blend_func_separate", a)
BlendFuncRgb == \E a \in BlendRgbArgs : Manager("blend_func_rgb", a)
BlendEquation == \E a \in BlendEquationArgs : Manager("blend_equation", a)
UseProgram == \E p \in Programs : Manager("use_program", <<p>>)
BindVao == \E v \in Vaos : Manager("bind_vao", <<v>>)
BindFbo == \E f \in Fbos : Manager("bind_fbo", <<f>>)
SetUniform == \E n \in UniformNames, v \in UniformValues : Manager("set_uniform", <<n, v>>)
BindTexture == Manager("bind_texture", <<0, 1>>)
BindSampler == Manager("bind_sampler", <<0, 1>>)
DestroyProgram == \E p \in Programs \ {0} : Manager("destroy_program", <<p>>)
DestroyVboVec == Manager("destroy_vbo_vec", <<<<1>>>>)
DestroyVboBoxArray == Manager("destroy_vbo_box_array", <<<<1>>>>)
DestroyVao == \E v \in Vaos \ {0} : Manager("destroy_vao", <<v>>)
\* set_state with a record that copy_state or a snapshot has copied
SetState == \E s \in {GlStateNew} \cup {snaps[i] : i \in 1..Len(snaps)} : Manager("set_state", <<s>>)

\* GlStateManager::copy_state
CopyState ==
    /\ nops < MaxOps
    /\ IF can_borrow(rc)
       THEN /\ last' = [op |-> "copy_state", args |-> <<>>, panic |-> FALSE]
            /\ calls' = <<>>
            /\ rc' = clone_borrow(rc)
            /\ UNCHANGED <<st, dev, uhist>>
       ELSE Panic("copy_state", <<>>)
    /\ nops' = nops + 1
    /\ UNCHANGED <<snaps, scn>>
    /\ UNCHANGED <<atlasVars, meshVars>>

\* GlStateManager::snapshot
TakeSnapshot ==
    IF can_borrow(rc)
    THEN /\ snaps' = Append(snaps, st)
         /\ last' = [op |-> "snapshot", args |-> <<>>, panic |-> FALSE]
         /\ calls' = <<>>
         /\ rc' = clone_borrow(rc)
         /\ UNCHANGED <<st, dev, uhist>>
    ELSE /\ Panic("snapshot", <<>>)
         /\ UNCHANGED snaps

Snapshot ==
    /\ nops < MaxOps
    /\ Len(snaps) < MaxSnapshots
    /\ TakeSnapshot
    /\ nops' = nops + 1
    /\ UNCHANGED scn
    /\ UNCHANGED <<atlasVars, meshVars>>

\* Drop for GlStateSnapshot, of the i-th live snapshot
Release(i) ==
    /\ Call("set_state", <<snaps[i]>>)
    /\ snaps' = RemoveAt(snaps, i)

Drop ==
    /\ nops < MaxOps
    /\ \E i \in 1..Len(snaps) : Release(i)
    /\ nops' = nops + 1
    /\ UNCHANGED scn
    /\ UNCHANGED <<atlasVars, meshVars>>

GlInit ==
    /\ st = GlStateNew
    /\ dev = DeviceNew
    /\ calls = <<>>
    /\ last = [op |-> "new", args |-> <<>>, panic |-> FALSE]
    /\ snaps = <<>>
    /\ nops = 0
    /\ uhist = EmptyMap
    /\ scn = [phase |-> "setup", changed |-> {}, replayed |-> {}, saved |-> GlStateNew,
              inner |-> GlStateNew, destroyed_programs |-> EmptyMap,
              destroyed_vaos |-> EmptyMap]
    /\ rc = RcNew

(***************************************************************************)
(* data.rs: impl MatrixStack.  A Mat4 is modelled by an affine map of the  *)
(* line, x |-> scale * x + shift, which composes as the matrices of a      *)
(* scaling and a translation along one axis do.                            *)
(***************************************************************************)
\* Mat4::default, the identity
Mat4Default == [scale |-> 1, shift |-> 0]

\* Mat4 * Mat4
Mat4Mul(a, b) == [scale |-> a.scale * b.scale, shift |-> a.scale * b.shift + a.shift]

\* Mat4::from_translation
from_translation(t) == [scale |-> 1, shift |-> t]

\* Mat4::from_scale
from_scale(k) == [scale |-> k, shift |-> 0]

\* MatrixStack::new
MatrixStackNew == [stack |-> <<>>, current |-> Mat4Default]

\* a push that stores the identity in place of the current matrix
push_StoresDefault(m) == [m EXCEPT !.stack = Append(@, Mat4Default)]

\* MatrixStack::push
push(m) == [m EXCEPT !.stack = Append(@, m.current)]

\* Option::expect on the Option that Vec::pop returns
expect(v, msg) ==
    IF v = <<>>
    THEN [panic |-> TRUE, msg |-> msg]
    ELSE [panic |-> FALSE, value |-> v[Len(v)]]

\* a pop that leaves the current matrix alone when the stack is empty
pop_Lenient(m) ==
    IF m.stack = <<>>
    THEN [panic |-> FALSE, m |-> m]
    ELSE [panic |-> FALSE,
          m |-> [stack |-> SubSeq(m.stack, 1, Len(m.stack) - 1),
                 current |-> m.stack[Len(m.stack)]]]

\* MatrixStack::pop: whether it panics, and the stack it leaves
pop(m) ==
    LET top == expect(m.stack, "MatrixStack underflow")
    IN  IF top.panic
        THEN [panic |-> TRUE, msg |-> top.msg, m |-> m]
        ELSE [panic |-> FALSE,
              m |-> [stack |-> SubSeq(m.stack, 1, Len(m.stack) - 1), current |-> top.value]]

\* MatrixStack::translate
translate(m, translation) ==
    [m EXCEPT !.current = Mat4Mul(@, from_translation(translation))]

\* MatrixStack::scale
scale(m, k) == [m EXCEPT !.current = Mat4Mul(@, from_scale(k))]

\* Mat4::from_quat, of the identity and of a half turn about an axis across the line
from_quat(q) == IF q = "half_turn" THEN [scale |-> -1, shift |-> 0] ELSE Mat4Default

\* MatrixStack::rotate
rotate(m, rotation) == [m EXCEPT !.current = Mat4Mul(@, from_quat(rotation))]

\* MulAssign<Mat4> for MatrixStack
mul_assign(m, rhs) == [m EXCEPT !.current = Mat4Mul(@, rhs)]

(***************************************************************************)
(* mesh.rs: InstancedMesh                                                  *)
(***************************************************************************)
\* InstancedMesh::new: the fields kept of the names the device generated
InstancedMeshNew(shader_program, vao, vbos) ==
    [pc |-> "live", shader |-> shader_program, vao |-> vao, vbo |-> vbos[1],
     indices_vbo |-> vbos[2], instance_vbo |-> vbos[3], freed |-> FALSE]

\* InstancedMesh::destroy, given the GlState and device w of the manager
\* handed to it: the mesh it leaves and what the manager did
destroy(mesh, w) ==
    [mesh |-> [mesh EXCEPT !.freed = TRUE],
     w    |-> destroy_vao(destroy_vbo_box_array(w, <<mesh.vbo, mesh.indices_vbo,
                                                     mesh.instance_vbo>>),
                          mesh.vao)]

\* Drop for InstancedMesh, `panicking` telling whether the thread is unwinding
\* already: the mesh it leaves, the device, the calls issued, and whether it
\* panics.  The manager it destroys through is a new one of its own.
drop(mesh, d, panicking) ==
    IF ~mesh.freed /\ ~panicking
    THEN LET r == destroy(mesh, [s |-> GlStateNew, d |-> d, log |-> <<>>, panic |-> FALSE])
         IN  [mesh |-> [r.mesh EXCEPT !.pc = "dropped"], d |-> r.w.d, log |-> r.w.log,
              panic |-> TRUE]
    ELSE [mesh |-> [mesh EXCEPT !.pc = "dropped"], d |-> d, log |-> <<>>, panic |-> FALSE]

\* how many calls of a log ask the device for this
CountCalls(log, fn, args) ==
    Cardinality({i \in 1..Len(log) : log[i].fn = fn /\ log[i].args = args})

(***************************************************************************)
(* mesh.rs: LayoutMetaData and VertexRenderer.  A Vec<f32> is a sequence.  *)
(***************************************************************************)
RECURSIVE SumSeq(_)
SumSeq(q) == IF q = <<>> THEN 0 ELSE q[1] + SumSeq(Tail(q))

\* LayoutMetaData::new, of (location, size) pairs
LayoutMetaDataNew(alignments) ==
    [attributes |-> alignments,
     stride |-> SumSeq([i \in 1..Len(alignments) |-> alignments[i][2]])]

\* u32::is_multiple_of: only zero is a multiple of zero
is_multiple_of(n, m) == IF m = 0 THEN n = 0 ELSE n % m = 0

\* MeshLayout::new
MeshLayoutNew(mesh_layout, instance_layout) ==
    [mesh_layout |-> mesh_layout, instance_layout |-> instance_layout]

\* the loops of InstancedMesh::new over the attributes of a layout, from the
\* i-th on: each is pointed, enabled and given its divisor
RECURSIVE PointInstanced(_, _, _, _, _)
PointInstanced(w, layout, i, pointer, divisor) ==
    IF i > Len(layout.attributes) THEN w
    ELSE LET loc  == layout.attributes[i][1]
             size == layout.attributes[i][2]
         IN  PointInstanced(
                 Gl(Gl(Gl(w, "VertexAttribPointer", <<loc, size, layout.stride * 4, pointer * 4>>),
                       "EnableVertexAttribArray", <<loc>>),
                    "VertexAttribDivisor", <<loc, divisor>>),
                 layout, i + 1, pointer + size, divisor)

\* InstancedMesh::new, vao and vbos being the names the device generates and
\* buffer the floats write_mesh writes: the mesh, and what was done to the
\* device, which is called directly and not through a manager
InstancedMesh_new(w, shader_program, vertex_count, layout, buffer, vao, vbos) ==
    LET w1 == Gl(Gl(Gl(w, "GenVertexArrays", <<1>>), "BindVertexArray", <<vao>>),
                 "GenBuffers", <<3>>)
        w2 == Gl(Gl(w1, "BindBuffer", <<"GL_ARRAY_BUFFER", vbos[1]>>),
                 "BufferData", <<"GL_ARRAY_BUFFER", Len(buffer) * 4, buffer>>)
        w3 == PointInstanced(w2, layout.mesh_layout, 1, 0, 0)
        w4 == Gl(Gl(w3, "BindBuffer", <<"GL_ELEMENT_ARRAY_BUFFER", vbos[2]>>),
                 "BufferData", <<"GL_ELEMENT_ARRAY_BUFFER", vertex_count * 4,
                                 [i \in 1..vertex_count |-> i - 1]>>)
        w5 == PointInstanced(Gl(w4, "BindBuffer", <<"GL_ARRAY_BUFFER", vbos[3]>>),
                             layout.instance_layout, 1, 0, 1)
    IN  [mesh |-> InstancedMeshNew(shader_program, vao, vbos),
         w    |-> Gl(w5, "BindVertexArray", <<0>>)]

\* VertexRenderer::new, with the names the device generated
VertexRendererNew(layout, program, vao, vbo) ==
    [pc |-> "live", buffer |-> <<>>, layout |-> layout, vao |-> vao, vbo |-> vbo,
     program |-> program]

\* VertexRenderer::set_shader
set_shader(r, program) == [r EXCEPT !.program = program]

\* VertexRenderer::put, put2, put3, put4
put(r, value) == [r EXCEPT !.buffer = Append(@, value)]

put2(r, v0, v1) == [r EXCEPT !.buffer = @ \o <<v0, v1>>]

put3(r, v0, v1, v2) == [r EXCEPT !.buffer = @ \o <<v0, v1, v2>>]

put4(r, v0, v1, v2, v3) == [r EXCEPT !.buffer = @ \o <<v0, v1, v2, v3>>]

\* Mat4::to_cols_array, of the matrix of a scaling and a translation along
\* the x axis: its sixteen entries, column by column
to_cols_array(mat) ==
    <<mat.scale, 0, 0, 0,  0, 1, 0, 0,  0, 0, 1, 0,  mat.shift, 0, 0, 1>>

\* VertexRenderer::put_mat4
put_mat4(r, mat) ==
    LET m == to_cols_array(mat)
    IN  put4(put4(put4(put4(r, m[1], m[2], m[3], m[4]), m[5], m[6], m[7], m[8]),
                  m[9], m[10], m[11], m[12]),
             m[13], m[14], m[15], m[16])

\* the loop that enables and points the attributes of a layout, from the i-th on
RECURSIVE PointAttributes(_, _, _, _)
PointAttributes(w, layout, i, pointer) ==
    IF i > Len(layout.attributes) THEN w
    ELSE LET loc  == layout.attributes[i][1]
             size == layout.attributes[i][2]
         IN  PointAttributes(
                 Gl(Gl(w, "EnableVertexAttribArray", <<loc>>),
                    "VertexAttribPointer", <<loc, size, layout.stride * 4, pointer * 4>>),
                 layout, i + 1, pointer + size)

\* the loop that disables the attributes of a layout, from the i-th on
RECURSIVE DisableAttributes(_, _, _)
DisableAttributes(w, layout, i) ==
    IF i > Len(layout.attributes) THEN w
    ELSE DisableAttributes(Gl(w, "DisableVertexAttribArray", <<layout.attributes[i][1]>>),
                           layout, i + 1)

\* a render that takes the buffer only when it goes on to draw, and returns
\* an error with the buffer as it was
VertexRenderer_render_KeepsOnError(r, w) ==
    LET buf   == r.buffer
        taken == [r EXCEPT !.buffer = <<>>]
    IN  IF ~is_multiple_of(Len(buf), r.layout.stride)
        THEN [err |-> "MalformedData", r |-> r, w |-> w]
        ELSE IF r.layout.stride = 0
        THEN [err |-> "panic", r |-> r, w |-> w]
        ELSE IF ~is_multiple_of(Len(buf) \div r.layout.stride, 3)
        THEN [err |-> "IncompleteTriangleData", r |-> r, w |-> w]
        ELSE LET w1 == use_program(bind_vao(w, r.vao), r.program)
                 w2 == Gl(Gl(w1, "BindBuffer", <<"GL_ARRAY_BUFFER", r.vbo>>),
                          "BufferData", <<"GL_ARRAY_BUFFER", Len(buf) * 4, buf>>)
                 w3 == PointAttributes(w2, r.layout, 1, 0)
                 w4 == Gl(w3, "DrawArrays", <<"GL_TRIANGLES", 0, Len(buf) \div r.layout.stride>>)
             IN  [err |-> "none", r |-> taken, w |-> DisableAttributes(w4, r.layout, 1)]

\* VertexRenderer::render: the error returned ("panic" for the division by a
\* stride of zero), the renderer left and what was done to the manager and
\* the device.  T::set_uniforms is the caller's and is taken to do nothing.
VertexRenderer_render(r, w) ==
    LET buf   == r.buffer
        taken == [r EXCEPT !.buffer = <<>>]
    IN  IF ~is_multiple_of(Len(buf), r.layout.stride)
        THEN [err |-> "MalformedData", r |-> taken, w |-> w]
        ELSE IF r.layout.stride = 0
        THEN [err |-> "panic", r |-> taken, w |-> w]
        ELSE IF ~is_multiple_of(Len(buf) \div r.layout.stride, 3)
        THEN [err |-> "IncompleteTriangleData", r |-> taken, w |-> w]
        ELSE LET w1 == use_program(bind_vao(w, r.vao), r.program)
                 w2 == Gl(Gl(w1, "BindBuffer", <<"GL_ARRAY_BUFFER", r.vbo>>),
                          "BufferData", <<"GL_ARRAY_BUFFER", Len(buf) * 4, buf>>)
                 w3 == PointAttributes(w2, r.layout, 1, 0)
                 w4 == Gl(w3, "DrawArrays", <<"GL_TRIANGLES", 0, Len(buf) \div r.layout.stride>>)
             IN  [err |-> "none", r |-> taken, w |-> DisableAttributes(w4, r.layout, 1)]

(***************************************************************************)
(* mesh.rs: Vertex, the buffer formats and BufferBuilder                   *)
(***************************************************************************)
\* SimpleBufferFormat, as BufferBuilder::new makes it
SimpleBufferFormat(uses_color, uses_normal, uses_uv) ==
    [kind |-> "simple", uv |-> uses_uv, color |-> uses_color, normal |-> uses_normal]

\* ArbitraryBufferFormat, of (name, idx, size) triples
ArbitraryBufferFormat(attributes) == [kind |-> "arbitrary", attributes |-> attributes]

\* one part of a Vertex: (index, count, values)
Part(idx, count) == [idx |-> idx, count |-> count, values |-> <<>>]

\* BufferFormat::get_vertex
get_vertex(f) ==
    IF f.kind = "simple"
    THEN [parts |-> <<Part(0, 3)>>
                    \o (IF f.color THEN <<Part(1, 4)>> ELSE <<>>)
                    \o (IF f.normal THEN <<Part(2, 3)>> ELSE <<>>)
                    \o (IF f.uv THEN <<Part(3, 2)>> ELSE <<>>)]
    ELSE [parts |-> [i \in 1..Len(f.attributes) |->
                        Part(f.attributes[i][2], f.attributes[i][3])]]

\* BufferFormat::get_sizes
get_sizes(f) ==
    IF f.kind = "simple"
    THEN <<3>> \o (IF f.color THEN <<4>> ELSE <<>>)
               \o (IF f.normal THEN <<3>> ELSE <<>>)
               \o (IF f.uv THEN <<2>> ELSE <<>>)
    ELSE [i \in 1..Len(f.attributes) |-> f.attributes[i][3]]

\* BufferFormat::stride
stride(f) ==
    IF f.kind = "simple"
    THEN (IF f.uv THEN 2 ELSE 0) + (IF f.normal THEN 3 ELSE 0) + (IF f.color THEN 4 ELSE 0) + 3
    ELSE SumSeq([i \in 1..Len(f.attributes) |-> f.attributes[i][3]])

\* Vertex::set_property: the first part of this index and size that is still
\* empty takes the values, and without one the call panics
set_property(v, property, values) ==
    LET hits == {i \in 1..Len(v.parts) :
                    /\ v.parts[i].idx = property
                    /\ v.parts[i].count = Len(values)
                    /\ v.parts[i].values = <<>>}
    IN  IF hits = {}
        THEN [panic |-> TRUE, v |-> v]
        ELSE [panic |-> FALSE,
              v |-> [v EXCEPT !.parts[CHOOSE i \in hits : \A j \in hits : i <= j].values = values]]

\* Vertex::is_complete
is_complete(v) == \A i \in 1..Len(v.parts) : v.parts[i].count = Len(v.parts[i].values)

\* Vertex::is_started
is_started(v) == \E i \in 1..Len(v.parts) : v.parts[i].values # <<>>

RECURSIVE Concat(_)
Concat(qs) == IF qs = <<>> THEN <<>> ELSE qs[1] \o Concat(Tail(qs))

\* Vertex::pack: the values of the parts in order, moved out of the parts
Vertex_pack(v) ==
    [buf |-> Concat([i \in 1..Len(v.parts) |-> v.parts[i].values]),
     v   |-> [parts |-> [i \in 1..Len(v.parts) |-> [v.parts[i] EXCEPT !.values = <<>>]]]]

\* BufferBuilder::new_internal
new_internal(format, shader) ==
    [pc |-> "live", format |-> format, current_vertex |-> get_vertex(format), data |-> <<>>,
     shader |-> shader, uniforms |-> EmptyMap, samplers |-> EmptyMap]

\* a push that takes the current vertex as soon as it is started
push_vertex_Started(b) ==
    IF is_started(b.current_vertex)
    THEN [b EXCEPT !.data = @ \o Vertex_pack(b.current_vertex).buf,
                   !.current_vertex = Vertex_pack(b.current_vertex).v]
    ELSE b

\* BufferBuilder::push_vertex
push_vertex(b) ==
    IF is_started(b.current_vertex) /\ is_complete(b.current_vertex)
    THEN [b EXCEPT !.data = @ \o Vertex_pack(b.current_vertex).buf,
                   !.current_vertex = Vertex_pack(b.current_vertex).v]
    ELSE b

\* a property of the current vertex set through set_property
SetProperty(b, property, values) ==
    LET r == set_property(b.current_vertex, property, values)
    IN  [err |-> IF r.panic THEN "panic" ELSE "none",
         b   |-> [b EXCEPT !.current_vertex = r.v]]

\* BufferBuilder<SimpleBufferFormat>::add_vertex
add_vertex(b, vertex) == SetProperty(push_vertex(b), 0, vertex)

\* BufferBuilder<SimpleBufferFormat>::set_color, set_normal, set_uv
set_color(b, color) == SetProperty(b, 1, color)

set_normal(b, normal) == SetProperty(b, 2, normal)

set_uv(b, uv) == SetProperty(b, 3, uv)

\* BufferBuilder<ArbitraryBufferFormat>::add_vertex
add_vertex_arbitrary(b) == [err |-> "none", b |-> push_vertex(b)]

\* BufferBuilder<ArbitraryBufferFormat>::set_value
set_value(b, attr, value) ==
    LET named == {i \in 1..Len(b.format.attributes) : b.format.attributes[i][1] = attr}
    IN  IF named = {}
        THEN [err |-> "InvalidName", b |-> b]
        ELSE LET a == b.format.attributes[CHOOSE i \in named : \A j \in named : i <= j]
             IN  IF Len(value) = a[3]
                 THEN SetProperty(b, a[2], value)
                 ELSE [err |-> "ExpectedSize", b |-> b]

\* the loop of BufferBuilder::render over the sizes of the format, from the i-th on
RECURSIVE PointSizes(_, _, _, _, _)
PointSizes(w, sizes, bstride, i, offset) ==
    IF i > Len(sizes) THEN w
    ELSE PointSizes(Gl(Gl(w, "EnableVertexAttribArray", <<i - 1>>),
                       "VertexAttribPointer", <<i - 1, sizes[i], bstride * 4, offset * 4>>),
                    sizes, bstride, i + 1, offset + sizes[i])

\* the orders in which a HashMap may hand out its keys: std's HashMap is
\* seeded anew for each map, and its order of iteration is unspecified
Orders(keys) ==
    {o \in [1..Cardinality(keys) -> keys] : \A i, j \in DOMAIN o : i # j => o[i] # o[j]}

\* BufferBuilder::set_uniform
BufferBuilder_set_uniform(b, name, value) ==
    [b EXCEPT !.uniforms = (name :> value) @@ @]

\* BufferBuilder::set_sampler
BufferBuilder_set_sampler(b, name, slot, tex) ==
    [b EXCEPT !.samplers = (name :> <<slot, tex>>) @@ @]

\* the loop of BufferBuilder::render over the uniforms, `order` being the
\* order in which the HashMap hands out the names
RECURSIVE SetUniforms(_, _, _)
SetUniforms(w, uniforms, order) ==
    IF order = <<>> \/ w.panic THEN w
    ELSE SetUniforms(set_uniform(w, order[1], uniforms[order[1]]), uniforms, Tail(order))

\* the loop of BufferBuilder::render over the samplers, (slot, texture) by
\* name, `order` being the order in which the HashMap hands out the names
RECURSIVE SetSamplers(_, _, _)
SetSamplers(w, samplers, order) ==
    IF order = <<>> \/ w.panic THEN w
    ELSE LET set == set_uniform(w, order[1], [kind |-> "I32", val |-> samplers[order[1]][1]])
         IN  IF set.panic THEN set
             ELSE SetSamplers(bind_texture(set, samplers[order[1]][1], samplers[order[1]][2]),
                              samplers, Tail(order))

\* BufferBuilder::render, vao and vbo being the names the device generates:
\* the error returned ("panic" for the division by a stride of zero and for a
\* set_uniform that panics), the builder left and what was done to the manager
\* and the device, for the orders in which the two HashMaps hand out their names
BufferBuilder_render(b, w, vao, vbo, uniform_order, sampler_order) ==
    LET b1 == push_vertex(b)
        bstride == stride(b1.format)
    IN  IF bstride = 0
        THEN [err |-> "panic", b |-> b1, w |-> w]
        ELSE IF ~is_multiple_of(Len(b1.data) \div bstride, 3)
        THEN [err |-> "IncompleteTriangleData", b |-> b1, w |-> w]
        ELSE LET w1 == Gl(Gl(w, "GenVertexArrays", <<1>>), "GenBuffers", <<1>>)
                 w2 == Gl(Gl(w1, "BindVertexArray", <<vao>>),
                          "BindBuffer", <<"GL_ARRAY_BUFFER", vbo>>)
                 w3 == Gl(w2, "BufferData", <<"GL_ARRAY_BUFFER", Len(b1.data) * 4, b1.data>>)
                 w4 == PointSizes(w3, get_sizes(b1.format), bstride, 1, 0)
                 w5 == SetSamplers(SetUniforms(use_program(w4, b1.shader), b1.uniforms,
                                               uniform_order),
                                   b1.samplers, sampler_order)
                 w6 == Gl(w5, "DrawArrays", <<"GL_TRIANGLES", 0, Len(b1.data) \div bstride>>)
                 w7 == Gl(Gl(Gl(w6, "BindVertexArray", <<0>>),
                             "DeleteBuffers", <<1, <<vbo>>>>),
                          "DeleteVertexArrays", <<vao>>)
             IN  IF w5.panic
                 THEN [err |-> "panic", b |-> b1, w |-> w5]
                 ELSE [err |-> "none",
                       b   |-> [b1 EXCEPT !.data = <<>>,
                                          !.current_vertex = get_vertex(b1.format)],
                       w   |-> w7]

\* no call has been made on a matrix stack or on an object of mesh.rs
NoCalls == [pushes |-> 0, pops |-> 0, n |-> 0, destroys |-> 0, buffer_deletes |-> 0, vao_deletes |-> 0,
            saved |-> <<>>, restored_changed |-> FALSE, meshes |-> 0, found |-> <<>>]

\* the objects of mesh.rs and the matrix stack, where a run does not use them
MeshIdle ==
    /\ ms = MatrixStackNew
    /\ im = [pc |-> "unused"]
    /\ vr = [pc |-> "unused"]
    /\ bb = [pc |-> "unused"]
    /\ mhist = NoCalls

AtlasIdle ==
    /\ cfg = [size |-> PageSize, border_padding |-> 0, rectangle_padding |-> 0]
    /\ texture_queue = <<>>
    /\ apc = "adding"
    /\ textures = <<>>
    /\ leftover = <<>>
    /\ finalized = <<>>
    /\ uploads = <<>>
    /\ queued = <<>>
    /\ ab = [pc |-> "unused", texture_queue |-> <<>>]
    /\ ret = Returned("new", <<>>, "none")

Next ==
    \/ DepthTest \/ DepthMask \/ Culling \/ CullFace \/ FrontFace \/ Blending
    \/ BlendFuncBoth \/ BlendFunc \/ BlendFuncSeparate \/ BlendFuncRgb \/ BlendEquation
    \/ UseProgram \/ BindVao \/ BindFbo \/ SetUniform \/ SetUniformDroppingSnapshot
    \/ BindTexture \/ BindSampler
    \/ DestroyProgram \/ DestroyVboVec \/ DestroyVboBoxArray \/ DestroyVao
    \/ SetState \/ CopyState \/ Snapshot \/ Drop

\* the GL state manager, its snapshots and the device
Init == GlInit /\ AtlasIdle /\ MeshIdle

Spec == Init /\ [][Next]_vars

(***************************************************************************)
(* The restore scenario: any binding of programs and setting of uniforms,  *)
(* then a snapshot, a change of each of five fields, the release of the    *)
(* snapshot, and the five setters called again with the values saved.      *)
(***************************************************************************)
Five == {"depth_test", "blend_func", "use_program", "bind_vao", "set_uniform"}

\* a manager call of the scenario
ScnCall(op, args) ==
    /\ Call(op, args)
    /\ UNCHANGED <<snaps, nops>>
    /\ UNCHANGED <<atlasVars, meshVars>>

BlendFactors(s) == <<s.blend.src_rgb, s.blend.src_alpha, s.blend.dst_rgb, s.blend.dst_alpha>>

NoValue == [kind |-> "None"]

\* the value the record holds for a name under the program in use
CachedUniform(s, name) ==
    IF s.program \in DOMAIN s.uniforms /\ name \in DOMAIN s.uniforms[s.program]
    THEN s.uniforms[s.program][name]
    ELSE NoValue

ScnUseProgram ==
    /\ scn.phase = "setup"
    /\ \E p \in Programs : ScnCall("use_program", <<p>>)
    /\ UNCHANGED scn

\* the uniforms the scenarios set: two numbers under "mvp", one under "a\0b"
ScnUniformValues == {[kind |-> "F32", val |-> 1], [kind |-> "F32", val |-> 2]}
ScnUniformArgs == {<<mvp, v>> : v \in ScnUniformValues} \cup {<<a_nul_b, [kind |-> "F32", val |-> 1]>>}

ScnSetUniform ==
    /\ scn.phase = "setup"
    /\ \E a \in ScnUniformArgs : ScnCall("set_uniform", a)
    /\ UNCHANGED scn

ScnSnapshot ==
    /\ scn.phase = "setup"
    /\ TakeSnapshot
    /\ scn' = [scn EXCEPT !.phase = "changing", !.saved = st]
    /\ UNCHANGED nops
    /\ UNCHANGED <<atlasVars, meshVars>>

\* a call that changes one of the five fields, each field once
ScnChange ==
    /\ scn.phase = "changing"
    /\ \E f \in Five \ scn.changed :
          /\ \/ f = "depth_test" /\ ScnCall("depth_test", <<~st.depth.enabled>>)
             \/ f = "blend_func" /\ \E a \in BlendSeparateArgs \ {BlendFactors(st)} :
                                       ScnCall("blend_func_separate", a)
             \/ f = "use_program" /\ \E p \in Programs \ {st.program} :
                                        ScnCall("use_program", <<p>>)
             \/ f = "bind_vao" /\ \E v \in Vaos \ {st.vao} : ScnCall("bind_vao", <<v>>)
             \/ f = "set_uniform" /\ \E n \in {x \in UniformNames : NoNul(x)} :
                                        \E v \in ScnUniformValues \ {CachedUniform(st, n)} :
                                            ScnCall("set_uniform", <<n, v>>)
          /\ scn' = [scn EXCEPT !.changed = @ \cup {f}]

ScnRelease ==
    /\ scn.phase = "changing"
    /\ scn.changed = Five
    /\ Release(1)
    /\ scn' = [scn EXCEPT !.phase = "replay"]
    /\ UNCHANGED nops
    /\ UNCHANGED <<atlasVars, meshVars>>

\* one of the five setters, called with the value the snapshot saved
ScnReplay ==
    /\ scn.phase = "replay"
    /\ \E f \in Five \ scn.replayed :
          /\ \/ f = "depth_test" /\ ScnCall("depth_test", <<scn.saved.depth.enabled>>)
             \/ f = "blend_func" /\ ScnCall("blend_func_separate", BlendFactors(scn.saved))
             \/ f = "use_program" /\ ScnCall("use_program", <<scn.saved.program>>)
             \/ f = "bind_vao" /\ ScnCall("bind_vao", <<scn.saved.vao>>)
             \/ f = "set_uniform" /\ \E n \in {x \in UniformNames : NoNul(x)} :
                                        /\ CachedUniform(scn.saved, n) # NoValue
                                        /\ ScnCall("set_uniform", <<n, CachedUniform(scn.saved, n)>>)
          /\ scn' = [scn EXCEPT !.replayed = @ \cup {f}]

NextRestore ==
    \/ ScnUseProgram \/ ScnSetUniform \/ ScnSnapshot \/ ScnChange \/ ScnRelease \/ ScnReplay

SpecRestore == Init /\ [][NextRestore]_vars

(***************************************************************************)
(* Nested snapshots: an outer snapshot, calls of the manager, an inner     *)
(* snapshot, calls of the manager, the release of the inner snapshot and   *)
(* then of the outer one.  scn.saved and scn.inner keep what the record    *)
(* was when each snapshot was taken.                                       *)
(***************************************************************************)
NestOuter ==
    /\ scn.phase = "setup"
    /\ TakeSnapshot
    /\ scn' = [scn EXCEPT !.phase = "outer", !.saved = st]
    /\ UNCHANGED nops
    /\ UNCHANGED <<atlasVars, meshVars>>

\* the calls a caller makes before and between the snapshots and their releases
NestChange ==
    /\ scn.phase \in {"setup", "outer", "inner"}
    /\ \/ DepthTest \/ DepthMask \/ Culling \/ CullFace \/ FrontFace \/ Blending
       \/ BlendFuncSeparate \/ BlendEquation \/ UseProgram \/ BindVao \/ BindFbo \/ SetUniform

NestInner ==
    /\ scn.phase = "outer"
    /\ st # scn.saved
    /\ TakeSnapshot
    /\ scn' = [scn EXCEPT !.phase = "inner", !.inner = st]
    /\ UNCHANGED nops
    /\ UNCHANGED <<atlasVars, meshVars>>

NestReleaseInner ==
    /\ scn.phase = "inner"
    /\ Release(2)
    /\ scn' = [scn EXCEPT !.phase = "inner_released"]
    /\ UNCHANGED nops
    /\ UNCHANGED <<atlasVars, meshVars>>

NestReleaseOuter ==
    /\ scn.phase = "inner_released"
    /\ Release(1)
    /\ scn' = [scn EXCEPT !.phase = "outer_released"]
    /\ UNCHANGED nops
    /\ UNCHANGED <<atlasVars, meshVars>>

NextNest == NestOuter \/ NestChange \/ NestInner \/ NestReleaseInner \/ NestReleaseOuter

SpecNest == Init /\ [][NextNest]_vars

(***************************************************************************)
(* Destroyed handles: programs are bound and given uniforms, vertex arrays *)
(* are bound, objects are destroyed, and the same handles are used again.  *)
(* scn.destroyed_programs and scn.destroyed_vaos keep, for each handle     *)
(* destroyed, what the record held for it when it was destroyed, and       *)
(* whether the handle has been used again since.                           *)
(***************************************************************************)
\* what the scenario remembers after a call
DestroyedAfter(op, args) ==
    CASE op = "destroy_program" ->
            [scn EXCEPT !.destroyed_programs =
                (args[1] :> [held |-> IF args[1] \in DOMAIN st.uniforms
                                      THEN st.uniforms[args[1]] ELSE EmptyMap,
                             current |-> st.program = args[1],
                             reused |-> FALSE]) @@ @]
      [] op = "destroy_vao" ->
            [scn EXCEPT !.destroyed_vaos =
                (args[1] :> [bound |-> st.vao = args[1], reused |-> FALSE]) @@ @]
      [] op = "set_uniform" ->
            IF st.program \notin DOMAIN scn.destroyed_programs
            THEN scn
            ELSE IF scn.destroyed_programs[st.program].reused
                 THEN [scn EXCEPT !.destroyed_programs = MapRemove(@, st.program)]
                 ELSE [scn EXCEPT !.destroyed_programs[st.program].reused = TRUE]
      [] op = "bind_vao" ->
            IF args[1] \notin DOMAIN scn.destroyed_vaos
            THEN scn
            ELSE IF scn.destroyed_vaos[args[1]].reused
                 THEN [scn EXCEPT !.destroyed_vaos = MapRemove(@, args[1])]
                 ELSE [scn EXCEPT !.destroyed_vaos[args[1]].reused = TRUE]
      [] OTHER -> scn

DstCall(op, args) ==
    /\ ScnCall(op, args)
    /\ scn' = DestroyedAfter(op, args)

\* the scenario works with program 0, the unbound sentinel, and one program object
DstUseProgram == \E p \in {0, 1} : DstCall("use_program", <<p>>)

DstSetUniform == \E a \in ScnUniformArgs : DstCall("set_uniform", a)

DstBindVao == \E v \in Vaos : DstCall("bind_vao", <<v>>)

DstDestroyProgram == DstCall("destroy_program", <<1>>)

DstDestroyVao == \E v \in Vaos \ {0} : DstCall("destroy_vao", <<v>>)

NextDestroy ==
    \/ DstUseProgram \/ DstSetUniform \/ DstBindVao \/ DstDestroyProgram \/ DstDestroyVao

SpecDestroy == Init /\ [][NextDestroy]_vars

(***************************************************************************)
(* The lifetime of a program: programs that have not been destroyed are    *)
(* bound, a program is destroyed once, snapshots are taken and released in *)
(* any order.  scn.destroyed_programs holds the programs destroyed; the    *)
(* manager creates no program, so none of them comes back.                 *)
(***************************************************************************)
LifeUseProgram ==
    \E p \in Programs \ DOMAIN scn.destroyed_programs : DstCall("use_program", <<p>>)

LifeDestroyProgram ==
    \E p \in (Programs \ {0}) \ DOMAIN scn.destroyed_programs : DstCall("destroy_program", <<p>>)

LifeSnapshot ==
    /\ Len(snaps) < MaxSnapshots
    /\ TakeSnapshot
    /\ UNCHANGED <<nops, scn>>
    /\ UNCHANGED <<atlasVars, meshVars>>

LifeRelease ==
    /\ \E i \in 1..Len(snaps) : Release(i)
    /\ UNCHANGED <<nops, scn>>
    /\ UNCHANGED <<atlasVars, meshVars>>

NextLife == LifeUseProgram \/ LifeDestroyProgram \/ LifeSnapshot \/ LifeRelease

SpecLife == Init /\ [][NextLife]_vars

(***************************************************************************)
(* Claims about the GL state manager.                                      *)
(***************************************************************************)
Mutators == {"depth_test", "depth_mask", "culling", "cull_face", "front_face", "blending",
             "blend_func_separate", "blend_equation", "use_program", "bind_vao", "bind_fbo",
             "set_uniform"}

\* the value the record holds where a mutator, called with args, would write
Cached(s, op, args) ==
    CASE op = "depth_test"          -> <<s.depth.enabled>>
      [] op = "depth_mask"          -> <<s.depth.mask>>
      [] op = "culling"             -> <<s.cull.enabled>>
      [] op = "cull_face"           -> <<s.cull.face>>
      [] op = "front_face"          -> <<s.cull.front_face>>
      [] op = "blending"            -> <<s.blend.enabled>>
      [] op = "blend_func_separate" -> BlendFactors(s)
      [] op = "blend_equation"      -> <<s.blend.rgb_equation, s.blend.alpha_equation>>
      [] op = "use_program"         -> <<s.program>>
      [] op = "bind_vao"            -> <<s.vao>>
      [] op = "bind_fbo"            -> <<s.fbo>>
      [] op = "set_uniform"         -> <<args[1], CachedUniform(s, args[1])>>

IsChange(c) == c.fn \notin Queries

\* the device calls of a log that change the device
Changes(log) == SelectSeq(log, IsChange)

\* C4: a mutator called twice in a row with the same argument issues no
\* device call at all the second time.
C4_SecondCallIsSilent ==
    [][(/\ last'.op \in Mutators
        /\ last.op = last'.op
        /\ last.args = last'.args) => calls' = <<>>]_vars

\* C5: a mutator called with a value that differs from the cached one issues
\* exactly one device call that changes the device, and the cached value is
\* the requested one when it returns.
C5_ChangeIsOneCallAndCached ==
    [][(/\ last'.op \in Mutators
        /\ Cached(st, last'.op, last'.args) # last'.args)
       => /\ Len(Changes(calls')) = 1
          /\ Cached(st', last'.op, last'.args) = last'.args]_vars

\* C6: every field of the record equals the state of the device: program,
\* vertex array, framebuffer, blend factors and equations, depth enable and
\* mask, cull enable, face and winding.
C6_CacheEqualsDevice ==
    /\ dev.current_program = st.program
    /\ dev.vertex_array_binding = st.vao
    /\ dev.framebuffer_binding = st.fbo
    /\ dev.blend_src_rgb = SrcRgb_to_gl(st.blend.src_rgb)
    /\ dev.blend_dst_rgb = BlendFactor_to_gl(st.blend.dst_rgb)
    /\ dev.blend_src_alpha = BlendFactor_to_gl(st.blend.src_alpha)
    /\ dev.blend_dst_alpha = BlendFactor_to_gl(st.blend.dst_alpha)
    /\ dev.blend_equation_rgb = Equation_to_gl(st.blend.rgb_equation)
    /\ dev.blend_equation_alpha = Equation_to_gl(st.blend.alpha_equation)
    /\ dev.depth_test = st.depth.enabled
    /\ dev.depth_writemask = st.depth.mask
    /\ dev.cull_face = st.cull.enabled
    /\ dev.cull_face_mode = CullFace_to_gl(st.cull.face)
    /\ dev.front_face = Winding_to_gl(st.cull.front_face)

\* C7: when a snapshot is released, the record equals, in every field, the
\* copy made when the snapshot was taken.
C7_ReleaseRestoresRecord ==
    [][Len(snaps') < Len(snaps)
       => \E i \in 1..Len(snaps) : snaps' = RemoveAt(snaps, i) /\ st' = snaps[i]]_vars

\* C8: after the snapshot, the change of the five fields and the release,
\* each of the five setters called with its pre-snapshot value issues no
\* device call.
C8_ReplayIsSilent ==
    (scn.phase = "replay" /\ scn.replayed # {}) => calls = <<>>

\* the log holds the upload of the value to the location of the name
Uploads(log, program, name, value) ==
    \E i \in 1..Len(log) :
        /\ log[i].fn = UniformCall(value.kind)
        /\ log[i].args = <<UniformLocation(program, name), value>>

\* C9: uniform values are cached by program and name: set_uniform with the
\* value last given for this name under the program in use issues no device
\* call, whatever programs were bound in between, and with any other value,
\* or under a program the name was not given to, it uploads.
C9_UniformCachePerProgram ==
    [][last'.op = "set_uniform"
       => LET k == <<st.program, last'.args[1]>>
          IN  IF k \in DOMAIN uhist /\ uhist[k].val = last'.args[2]
              THEN calls' = <<>>
              ELSE Uploads(calls', st.program, last'.args[1], last'.args[2])]_vars

\* C10: set_uniform for a name never set on the program in use uploads the
\* value, whatever is cached under that name for other programs.
C10_FirstUseUploads ==
    [][(/\ last'.op = "set_uniform"
        /\ <<st.program, last'.args[1]>> \notin DOMAIN uhist)
       => /\ Uploads(calls', st.program, last'.args[1], last'.args[2])
          /\ st.program # 0 =>
                 /\ last'.args[1] \in DOMAIN dev'.uniforms[st.program]
                 /\ dev'.uniforms[st.program][last'.args[1]] = last'.args[2]]_vars

AtlasInit ==
    /\ cfg \in Configs
    /\ texture_queue = <<>>
    /\ apc = "adding"
    /\ textures = <<>>
    /\ leftover = <<>>
    /\ finalized = <<>>
    /\ uploads = <<>>
    /\ queued = <<>>
    /\ ab = [pc |-> "unused", texture_queue |-> <<>>]
    /\ ret = Returned("new", <<>>, "none")

AtlasNext ==
    \/ SetAddTexture
    \/ SetBuildBegin
    \/ SetBuildIter
    \/ GetIdAndRect

InitAtlas == AtlasInit /\ GlInit /\ MeshIdle

SpecAtlas == InitAtlas /\ [][AtlasNext]_vars

\* build() runs to its end once called: the loop is straight-line code
SpecAtlasFair == SpecAtlas /\ WF_vars(SetBuildIter)

(***************************************************************************)
(* One builder in the hands of a caller: an AtlasBuilder, added to and     *)
(* then built once (build consumes it), or an AtlasSetBuilder, added to.   *)
(***************************************************************************)
\* AtlasBuilder::add
Add(id, w, h) ==
    /\ ab.pc = "adding"
    /\ Len(ab.texture_queue) < MaxQueue
    /\ \E r \in {add(ab.texture_queue, id, w, h)} :
           /\ ab' = [ab EXCEPT !.texture_queue = r.queue]
           /\ ret' = Returned("AtlasBuilder::add", <<id, w, h>>, r.err)
    /\ UNCHANGED <<cfg, texture_queue, apc, textures, leftover, finalized, uploads, queued>>
    /\ UNCHANGED <<glVars, meshVars>>

\* AtlasBuilder::build_strict
BuildStrict ==
    /\ ab.pc = "adding"
    /\ \E r \in {build_strict(ab.texture_queue, cfg, Len(uploads) + 1)} :
           /\ ret' = [op |-> "build_strict", args |-> <<>>] @@ r
           /\ uploads' = uploads \o r.uploaded
    /\ ab' = [pc |-> "built", texture_queue |-> <<>>]
    /\ queued' = ab.texture_queue
    /\ UNCHANGED <<cfg, texture_queue, apc, textures, leftover, finalized>>
    /\ UNCHANGED <<glVars, meshVars>>

\* AtlasBuilder::build_overflow
BuildOverflow ==
    /\ ab.pc = "adding"
    /\ \E r \in {build_overflow(ab.texture_queue, cfg, Len(uploads) + 1)} :
           /\ ret' = [op |-> "build_overflow", args |-> <<>>] @@ r
           /\ uploads' = uploads \o r.uploaded
    /\ ab' = [pc |-> "built", texture_queue |-> <<>>]
    /\ queued' = ab.texture_queue
    /\ UNCHANGED <<cfg, texture_queue, apc, textures, leftover, finalized>>
    /\ UNCHANGED <<glVars, meshVars>>

\* AtlasBuilder::new, or AtlasSetBuilder::new
BuilderInit ==
    /\ cfg \in Configs
    /\ \/ ab = [pc |-> "adding", texture_queue |-> <<>>] /\ apc = "unused"
       \/ ab = [pc |-> "unused", texture_queue |-> <<>>] /\ apc = "adding"
    /\ texture_queue = <<>>
    /\ textures = <<>>
    /\ leftover = <<>>
    /\ finalized = <<>>
    /\ uploads = <<>>
    /\ queued = <<>>
    /\ ret = Returned("new", <<>>, "none")

\* ids are compared for equality only: a new texture takes the next free id
AddTexture ==
    \E id \in Ids \cap (1..(Len(ab.texture_queue) + 1)), d \in Dims : Add(id, d[1], d[2])

BuilderNext == AddTexture \/ BuildStrict \/ BuildOverflow \/ SetAddTexture

InitBuilder == BuilderInit /\ GlInit /\ MeshIdle

SpecBuilder == InitBuilder /\ [][BuilderNext]_vars

(***************************************************************************)
(* The walk of AtlasBuilder::build over any queue, the queues that hold an *)
(* id more than once included: add never leaves such a queue, and the walk *)
(* looks every id up again before it places the texture.                   *)
(***************************************************************************)
WalkIds == Ids \cap (1..2)
WalkDims == {<<1, 1>>, <<2, 2>>, <<4, 4>>}

RECURSIVE WalkQueues(_)
WalkQueues(n) ==
    IF n = 0 THEN {<<>>}
    ELSE LET shorter == WalkQueues(n - 1)
         IN  shorter \cup {Append(q, [id |-> id, w |-> d[1], h |-> d[2]]) :
                               q \in {x \in shorter : Len(x) = n - 1},
                               id \in WalkIds, d \in WalkDims}

WalkInit ==
    /\ cfg \in Configs
    /\ ab \in {[pc |-> "adding", texture_queue |-> q] : q \in WalkQueues(MaxQueue)}
    /\ apc = "unused"
    /\ texture_queue = <<>>
    /\ textures = <<>>
    /\ leftover = <<>>
    /\ finalized = <<>>
    /\ uploads = <<>>
    /\ queued = <<>>
    /\ ret = Returned("new", <<>>, "none")

WalkNext == BuildStrict \/ BuildOverflow

InitWalk == WalkInit /\ GlInit /\ MeshIdle

SpecWalk == InitWalk /\ [][WalkNext]_vars

\* a panic has ended the run
Aborted == ret.err = "panic"

(***************************************************************************)
(* Instanced meshes that are made, destroyed any number of times and       *)
(* dropped, among calls of the manager that bind vertex arrays and         *)
(* programs.  im is the mesh made last; mhist counts the meshes made and   *)
(* the destroy and delete calls that concern the mesh made last.           *)
(***************************************************************************)
\* InstancedMesh::new, the device handing out the names in sequence
ImNew ==
    /\ ~Aborted
    /\ mhist.meshes < MaxMeshes
    /\ \E r \in {InstancedMesh_new(World, 1, 1,
                                     MeshLayoutNew(LayoutMetaDataNew(<< <<0, 3>> >>),
                                                   LayoutMetaDataNew(<< <<1, 2>> >>)),
                                     <<1, 2, 3>>, mhist.meshes + 1,
                                     [i \in 1..3 |-> 3 * mhist.meshes + i])} :
           /\ im' = r.mesh
           /\ dev' = r.w.d
           /\ calls' = r.w.log
    /\ mhist' = [mhist EXCEPT !.meshes = @ + 1, !.destroys = 0,
                              !.buffer_deletes = 0, !.vao_deletes = 0]
    /\ last' = [op |-> "InstancedMesh::new", args |-> <<1>>, panic |-> FALSE]
    /\ ret' = Returned("InstancedMesh::new", <<1>>, "none")
    /\ UNCHANGED <<st, snaps, nops, uhist, scn, rc, ms, vr, bb>>
    /\ UNCHANGED <<cfg, texture_queue, apc, textures, leftover, finalized, uploads, queued, ab>>

\* the delete calls of a log that name the buffers, or the vertex array, of the mesh
DeletesAfter(log) ==
    [mhist EXCEPT
        !.buffer_deletes = @ + CountCalls(log, "DeleteBuffers",
                                          <<3, <<im.vbo, im.indices_vbo, im.instance_vbo>>>>),
        !.vao_deletes = @ + CountCalls(log, "DeleteVertexArrays", <<im.vao>>)]

\* mesh.destroy(&mut gl_state) with the manager of the program
ImDestroy ==
    /\ im.pc = "live"
    /\ ~Aborted
    /\ nops < MaxOps
    /\ \E r \in {destroy(im, World)} :
           /\ im' = r.mesh
           /\ st' = r.w.s
           /\ dev' = r.w.d
           /\ calls' = r.w.log
           /\ mhist' = [DeletesAfter(r.w.log) EXCEPT !.destroys = @ + 1]
    /\ last' = [op |-> "InstancedMesh::destroy", args |-> <<>>, panic |-> FALSE]
    /\ ret' = Returned("InstancedMesh::destroy", <<>>, "none")
    /\ nops' = nops + 1
    /\ UNCHANGED <<snaps, uhist, scn, rc, ms, vr, bb>>
    /\ UNCHANGED <<cfg, texture_queue, apc, textures, leftover, finalized, uploads, queued, ab>>

\* the mesh goes out of scope, or is dropped while a panic unwinds the thread
ImDrop ==
    /\ im.pc = "live"
    /\ ~Aborted
    /\ \E panicking \in BOOLEAN :
           \E r \in {drop(im, dev, panicking)} :
               /\ im' = r.mesh
               /\ dev' = r.d
               /\ calls' = r.log
               /\ mhist' = DeletesAfter(r.log)
               /\ last' = [op |-> "drop", args |-> <<panicking>>, panic |-> r.panic]
               /\ ret' = Returned("drop", <<panicking>>, IF r.panic THEN "panic" ELSE "none")
    /\ UNCHANGED <<st, snaps, nops, uhist, scn, rc, ms, vr, bb>>
    /\ UNCHANGED <<cfg, texture_queue, apc, textures, leftover, finalized, uploads, queued, ab>>

\* the manager is there before, between and after the meshes
ImBindVao == ~Aborted /\ BindVao

ImUseProgram == ~Aborted /\ UseProgram

\* no mesh has been made
InstancedInit ==
    /\ ms = MatrixStackNew
    /\ im = [pc |-> "unused"]
    /\ vr = [pc |-> "unused"]
    /\ bb = [pc |-> "unused"]
    /\ mhist = NoCalls

InstancedNext == ImNew \/ ImDestroy \/ ImDrop \/ ImBindVao \/ ImUseProgram

InitInstanced == GlInit /\ AtlasIdle /\ InstancedInit

SpecInstanced == InitInstanced /\ [][InstancedNext]_vars

(***************************************************************************)
(* A vertex renderer, or a buffer builder of a simple or an arbitrary      *)
(* format, on which at most MaxMeshOps calls are made after construction.  *)
(* A panic ends the run.                                                   *)
(***************************************************************************)
Vec2s == {<<5, 6>>}
Vec3s == {<<7, 8, 9>>}
Colors == {<<1, 1, 1, 1>>}
AttributeNames == {"pos", "uv", "nope"}
\* the names "a" and "a\0b" of uniforms, and "tex" and "lut" of samplers
BuilderUniformNames == {<<97>>, a_nul_b}
BuilderUniformValues == {[kind |-> "F32", val |-> 1]}
BuilderSamplers == {<<<<116, 101, 120>>, 0, 7>>, <<<<108, 117, 116>>, 1, 8>>}
ArbitraryFormats ==
    {ArbitraryBufferFormat(<< <<"pos", 0, 3>> >>),
     ArbitraryBufferFormat(<< <<"pos", 0, 3>>, <<"uv", 1, 2>> >>)}

\* what is left alone by a call that does not reach the manager
MeshFrame ==
    /\ UNCHANGED <<cfg, texture_queue, apc, textures, leftover, finalized, uploads, queued, ab>>
    /\ UNCHANGED <<snaps, nops, uhist, scn, rc, ms, im>>

NoGl == UNCHANGED <<st, dev>> /\ calls' = <<>>

\* a call made on a live object, counted
MeshCall(op, args, err) ==
    /\ ~Aborted
    /\ mhist.n < MaxMeshOps
    /\ mhist' = [mhist EXCEPT !.n = @ + 1,
                              !.found = IF op = "VertexRenderer::render" THEN vr.buffer ELSE @]
    /\ ret' = Returned(op, args, err)
    /\ last' = [op |-> op, args |-> args, panic |-> err = "panic"]
    /\ MeshFrame

\* VertexRenderer::new: a vertex array is generated and bound, a buffer generated
VrNew ==
    /\ vr.pc = "unused" /\ bb.pc = "unused"
    /\ \E vao \in Vaos \ {0}, program \in Programs \ {0} :
           /\ vr' = VertexRendererNew(LayoutMetaDataNew(<< <<0, 2>> >>), program, vao, 1)
           /\ \E w \in {Gl(Gl(Gl(World, "GenVertexArrays", <<1>>),
                              "BindVertexArray", <<vao>>), "GenBuffers", <<1>>)} :
                  st' = w.s /\ dev' = w.d /\ calls' = w.log
           /\ ret' = Returned("VertexRenderer::new", <<program>>, "none")
           /\ last' = [op |-> "VertexRenderer::new", args |-> <<program>>, panic |-> FALSE]
    /\ UNCHANGED <<bb, mhist>>
    /\ MeshFrame

VrSetShader ==
    /\ vr.pc = "live"
    /\ \E program \in Programs \ {0} :
           /\ vr' = set_shader(vr, program)
           /\ MeshCall("VertexRenderer::set_shader", <<program>>, "none")
    /\ NoGl
    /\ UNCHANGED bb

VrPut ==
    /\ vr.pc = "live"
    /\ vr' = put(vr, 1)
    /\ MeshCall("VertexRenderer::put", <<1>>, "none")
    /\ NoGl
    /\ UNCHANGED bb

VrPut2 ==
    /\ vr.pc = "live"
    /\ vr' = put2(vr, 1, 2)
    /\ MeshCall("VertexRenderer::put2", <<1, 2>>, "none")
    /\ NoGl
    /\ UNCHANGED bb

VrPut3 ==
    /\ vr.pc = "live"
    /\ vr' = put3(vr, 1, 2, 3)
    /\ MeshCall("VertexRenderer::put3", <<1, 2, 3>>, "none")
    /\ NoGl
    /\ UNCHANGED bb

VrPut4 ==
    /\ vr.pc = "live"
    /\ vr' = put4(vr, 1, 2, 3, 4)
    /\ MeshCall("VertexRenderer::put4", <<1, 2, 3, 4>>, "none")
    /\ NoGl
    /\ UNCHANGED bb

VrPutMat4 ==
    /\ vr.pc = "live"
    /\ \E mat \in {Mat4Mul(from_translation(3), from_scale(2))} :
           /\ vr' = put_mat4(vr, mat)
           /\ MeshCall("VertexRenderer::put_mat4", <<mat>>, "none")
    /\ NoGl
    /\ UNCHANGED bb

VrRender ==
    /\ vr.pc = "live"
    /\ \E r \in {VertexRenderer_render(vr, World)} :
           /\ vr' = r.r
           /\ st' = r.w.s
           /\ dev' = r.w.d
           /\ calls' = r.w.log
           /\ MeshCall("VertexRenderer::render", <<>>, r.err)
    /\ UNCHANGED bb

\* BufferBuilder::<SimpleBufferFormat>::new
BbNewSimple ==
    /\ vr.pc = "unused" /\ bb.pc = "unused"
    /\ \E uses_color \in BOOLEAN, uses_uv \in BOOLEAN :
           /\ bb' = new_internal(SimpleBufferFormat(uses_color, FALSE, uses_uv), 1)
           /\ ret' = Returned("BufferBuilder::new", <<1, uses_color, FALSE, uses_uv>>, "none")
           /\ last' = [op |-> "BufferBuilder::new", args |-> <<1, uses_color, FALSE, uses_uv>>,
                      panic |-> FALSE]
    /\ NoGl
    /\ UNCHANGED <<vr, mhist>>
    /\ MeshFrame

\* BufferBuilder::<ArbitraryBufferFormat>::new
BbNewArbitrary ==
    /\ vr.pc = "unused" /\ bb.pc = "unused"
    /\ \E f \in ArbitraryFormats :
           /\ bb' = new_internal(f, 1)
           /\ ret' = Returned("BufferBuilder::new", <<1, f>>, "none")
           /\ last' = [op |-> "BufferBuilder::new", args |-> <<1, f>>, panic |-> FALSE]
    /\ NoGl
    /\ UNCHANGED <<vr, mhist>>
    /\ MeshFrame

\* a call on the builder that does not reach the manager
BbCall(op, args, r) ==
    /\ bb' = r.b
    /\ MeshCall(op, args, r.err)
    /\ NoGl
    /\ UNCHANGED vr

BbAddVertexSimple ==
    /\ bb.pc = "live" /\ bb.format.kind = "simple"
    /\ \E v \in Vec3s : BbCall("BufferBuilder::add_vertex", <<v>>, add_vertex(bb, v))

BbSetColor ==
    /\ bb.pc = "live" /\ bb.format.kind = "simple"
    /\ \E c \in Colors : BbCall("BufferBuilder::set_color", <<c>>, set_color(bb, c))

BbSetNormal ==
    /\ bb.pc = "live" /\ bb.format.kind = "simple"
    /\ \E n \in Vec3s : BbCall("BufferBuilder::set_normal", <<n>>, set_normal(bb, n))

BbSetUv ==
    /\ bb.pc = "live" /\ bb.format.kind = "simple"
    /\ \E uv \in Vec2s : BbCall("BufferBuilder::set_uv", <<uv>>, set_uv(bb, uv))

BbAddVertex ==
    /\ bb.pc = "live" /\ bb.format.kind = "arbitrary"
    /\ BbCall("BufferBuilder::add_vertex", <<>>, add_vertex_arbitrary(bb))

BbSetValue ==
    /\ bb.pc = "live" /\ bb.format.kind = "arbitrary"
    /\ \E attr \in AttributeNames, value \in Vec2s \cup Vec3s :
           BbCall("BufferBuilder::set_value", <<attr, value>>, set_value(bb, attr, value))

\* BufferBuilder::set_uniform
BbSetUniform ==
    /\ bb.pc = "live"
    /\ \E name \in BuilderUniformNames, value \in BuilderUniformValues :
           BbCall("BufferBuilder::set_uniform", <<name, value>>,
                  [err |-> "none", b |-> BufferBuilder_set_uniform(bb, name, value)])

\* BufferBuilder::set_sampler
BbSetSampler ==
    /\ bb.pc = "live"
    /\ \E s \in BuilderSamplers :
           BbCall("BufferBuilder::set_sampler", s,
                  [err |-> "none", b |-> BufferBuilder_set_sampler(bb, s[1], s[2], s[3])])

\* BufferBuilder::render, for any order of the names of the two HashMaps
BbRender ==
    /\ bb.pc = "live"
    /\ \E r \in {BufferBuilder_render(bb, World, 1, 1, uo, so) :
                     uo \in Orders(DOMAIN bb.uniforms), so \in Orders(DOMAIN bb.samplers)} :
           /\ bb' = r.b
           /\ st' = r.w.s
           /\ dev' = r.w.d
           /\ calls' = r.w.log
           /\ MeshCall("BufferBuilder::render", <<>>, r.err)
    /\ UNCHANGED vr

MeshNext ==
    \/ VrNew \/ VrSetShader \/ VrPut \/ VrPut2 \/ VrPut3 \/ VrPut4 \/ VrPutMat4 \/ VrRender
    \/ BbNewSimple \/ BbNewArbitrary \/ BbAddVertexSimple \/ BbSetColor \/ BbSetNormal
    \/ BbSetUv \/ BbAddVertex \/ BbSetValue \/ BbSetUniform \/ BbSetSampler \/ BbRender

InitMesh == GlInit /\ AtlasIdle /\ MeshIdle

SpecMesh == InitMesh /\ [][MeshNext]_vars

(***************************************************************************)
(* A matrix stack on which push, pop, translate, scale, rotate and the     *)
(* multiplication by a matrix are called, at most MaxMatrixOps times.  A   *)
(* panic ends the run.                                                     *)
(***************************************************************************)
\* a call on the matrix stack that returns
MatrixCall(op, args, m) ==
    /\ ~Aborted
    /\ mhist.n < MaxMatrixOps
    /\ ms' = m
    /\ ret' = Returned(op, args, "none")
    /\ UNCHANGED <<cfg, texture_queue, apc, textures, leftover, finalized, uploads, queued, ab>>
    /\ UNCHANGED <<glVars, im, vr, bb>>

\* mhist.saved keeps, for every push not yet popped, the current matrix and
\* the depth of the stack at the push, and whether the current matrix has
\* been multiplied since
MatrixPush ==
    /\ MatrixCall("MatrixStack::push", <<>>, push(ms))
    /\ mhist' = [mhist EXCEPT !.pushes = @ + 1, !.n = @ + 1,
                              !.saved = Append(@, [current |-> ms.current,
                                                   depth |-> Len(ms.stack),
                                                   changed |-> FALSE])]

MatrixPop ==
    /\ ~Aborted
    /\ mhist.n < MaxMatrixOps
    /\ \E r \in {pop(ms)} :
           /\ ms' = r.m
           /\ ret' = Returned("MatrixStack::pop", <<>>, IF r.panic THEN "panic" ELSE "none")
    /\ mhist' = IF mhist.saved = <<>>
                 THEN [mhist EXCEPT !.pops = @ + 1, !.n = @ + 1]
                 ELSE [mhist EXCEPT !.pops = @ + 1, !.n = @ + 1,
                                    !.saved = SubSeq(@, 1, Len(@) - 1),
                                    !.restored_changed = mhist.saved[Len(mhist.saved)].changed]
    /\ UNCHANGED <<cfg, texture_queue, apc, textures, leftover, finalized, uploads, queued, ab>>
    /\ UNCHANGED <<glVars, im, vr, bb>>

\* the history after a call that multiplies the current matrix
Multiplied ==
    [mhist EXCEPT !.n = @ + 1,
                  !.saved = [i \in 1..Len(mhist.saved) |->
                                [mhist.saved[i] EXCEPT !.changed = TRUE]]]

MatrixTranslate ==
    /\ \E t \in {1, 2} : MatrixCall("MatrixStack::translate", <<t>>, translate(ms, t))
    /\ mhist' = Multiplied

MatrixScale ==
    /\ \E k \in {2, 3} : MatrixCall("MatrixStack::scale", <<k>>, scale(ms, k))
    /\ mhist' = Multiplied

MatrixRotate ==
    /\ MatrixCall("MatrixStack::rotate", <<"half_turn">>, rotate(ms, "half_turn"))
    /\ mhist' = Multiplied

MatrixMulAssign ==
    /\ \E rhs \in {[scale |-> 2, shift |-> 1]} :
           MatrixCall("MatrixStack::mul_assign", <<rhs>>, mul_assign(ms, rhs))
    /\ mhist' = Multiplied

MatrixNext ==
    \/ MatrixPush \/ MatrixPop \/ MatrixTranslate \/ MatrixScale
    \/ MatrixRotate \/ MatrixMulAssign

InitMatrix == GlInit /\ AtlasIdle /\ MeshIdle

SpecMatrix == InitMatrix /\ [][MatrixNext]_vars

(***************************************************************************)
(* Claims about the atlas.                                                 *)
(***************************************************************************)
\* the image can be placed on an empty page of this configuration
FitsEmptyPage(t, config) ==
    can_pack(PackerNew([width |-> config.size[1], height |-> config.size[2],
                        border_padding |-> config.border_padding,
                        rectangle_padding |-> config.rectangle_padding]), t.w, t.h)

AllFitEmptyPage(q) == \A i \in 1..Len(q) : FitsEmptyPage(q[i], cfg)

PlacedIds(pages) == UNION {DOMAIN pages[p].position_data : p \in 1..Len(pages)}

QueuedIds == {queued[i].id : i \in 1..Len(queued)}

\* C1: when every queued image fits on an empty page, the AtlasSet that
\* AtlasSetBuilder::build returns holds every queued identifier on some page.
C1_EveryQueuedIdPlaced ==
    (apc = "done" /\ AllFitEmptyPage(queued)) => QueuedIds \subseteq PlacedIds(finalized)

\* C2: when every queued image fits on an empty page, the loop of
\* AtlasSetBuilder::build terminates, and it ends in an iteration whose
\* overflow-tolerant build returned no leftovers.
C2_LoopTerminates ==
    /\ (apc = "loop" /\ AllFitEmptyPage(queued)) ~> (apc = "done")
    /\ [](apc = "done" => leftover = <<>>)

\* the loop went round more than once, for images that all fit, and ended
C2_Witness ==
    /\ apc = "done"
    /\ Len(finalized) >= 2
    /\ AllFitEmptyPage(queued)
    /\ leftover = <<>>

Overlap(a, b) ==
    /\ a.rect[1] < b.rect[1] + b.rect[3]
    /\ b.rect[1] < a.rect[1] + a.rect[3]
    /\ a.rect[2] < b.rect[2] + b.rect[4]
    /\ b.rect[2] < a.rect[2] + a.rect[4]

\* C3: on every page AtlasBuilder::build produces, no two placed rectangles
\* overlap, whatever the order in which the images were queued.
C3_NoOverlap ==
    \A p \in 1..Len(finalized) :
        \A a, b \in DOMAIN finalized[p].position_data :
            a # b => ~Overlap(finalized[p].position_data[a], finalized[p].position_data[b])

\* a page holding three placements, one of them beside and one below another
C3_Witness ==
    \E p \in 1..Len(finalized) :
        /\ Cardinality(DOMAIN finalized[p].position_data) >= 3
        /\ \E a, b \in DOMAIN finalized[p].position_data :
               /\ finalized[p].position_data[a].rect[1] > 0
               /\ finalized[p].position_data[b].rect[2] > 0

IdsOf(q) == {q[i].id : i \in 1..Len(q)}

\* what add, given the queue q before and the queue r after, had to do
AddContract(q, r) ==
    IF ret'.args[1] \in IdsOf(q)
    THEN ret'.err = "DuplicateId" /\ r = q
    ELSE /\ ret'.err = "none"
         /\ r = Append(q, [id |-> ret'.args[1], w |-> ret'.args[2], h |-> ret'.args[3]])

\* C11: add(id, image), on an AtlasBuilder and on an AtlasSetBuilder, fails
\* with DuplicateId and leaves the queue unchanged when the queue already
\* holds id; otherwise it appends (id, image) at the end and succeeds.
C11_AddContract ==
    [][/\ ret'.op = "AtlasBuilder::add" => AddContract(ab.texture_queue, ab'.texture_queue)
       /\ ret'.op = "AtlasSetBuilder::add" => AddContract(texture_queue, texture_queue')]_vars

\* an AtlasBuilder that holds two textures has refused a third for its id
C11_Witness ==
    /\ ret.op = "AtlasBuilder::add"
    /\ ret.err = "DuplicateId"
    /\ Len(ab.texture_queue) = 2
    /\ ret.args[1] = ab.texture_queue[1].id

\* the packer AtlasBuilder::build makes for a configuration
PackerFor(config) ==
    PackerNew([width |-> config.size[1], height |-> config.size[2],
               border_padding |-> config.border_padding,
               rectangle_padding |-> config.rectangle_padding])

\* the place in the packing order of the first image the packer refuses at its
\* turn, the images before it being packed; 0 when it takes them all
RECURSIVE FirstRefused(_, _, _)
FirstRefused(sorted, i, packer) ==
    IF i > Len(sorted) THEN 0
    ELSE IF ~can_pack(packer, sorted[i].w, sorted[i].h) THEN i
    ELSE CHOOSE out \in
             {FirstRefused(sorted, i + 1, r.packer) :
                 r \in {pack(packer, sorted[i].w, sorted[i].h)}} : TRUE

\* of the queue a build was given
Refused == FirstRefused(sort_by(queued), 1, PackerFor(cfg))

\* C12: build_strict on a queue of which at least one image cannot be placed
\* fails with TextureOverflow, returns no Atlas and uploads nothing to the
\* device, wherever the image stands in the packing order.
C12_StrictOverflowFails ==
    (ret.op = "build_strict" /\ Refused # 0)
        => /\ ret.err = "TextureOverflow"
           /\ "atlas" \notin DOMAIN ret
           /\ uploads = <<>>

\* a strict build refused for the last of three images, two being placed before it
C12_Witness ==
    /\ ret.op = "build_strict"
    /\ Refused = 3
    /\ ret.err = "TextureOverflow"

\* C13: build_strict succeeds, with an Atlas that holds every queued
\* identifier, whenever the packer places every queued image at its turn, and
\* it fails with TextureOverflow only when the packer refuses one.
C13_StrictSucceedsWhenAllFit ==
    ret.op = "build_strict"
        => /\ Refused = 0 => /\ ret.err = "none"
                             /\ DOMAIN ret.atlas.position_data = IdsOf(queued)
           /\ ret.err = "TextureOverflow" => Refused # 0

\* a strict build of three images that went through
C13_Witness ==
    /\ ret.op = "build_strict"
    /\ ret.err = "none"
    /\ Len(queued) = 3
    /\ Cardinality(DOMAIN ret.atlas.position_data) = 3

\* the identifiers of the images the packer refuses at their turn in the
\* packing order, each image it accepts being packed before the next is tried
RECURSIVE RefusedIds(_, _, _)
RefusedIds(sorted, i, packer) ==
    IF i > Len(sorted) THEN {}
    ELSE IF ~can_pack(packer, sorted[i].w, sorted[i].h)
    THEN CHOOSE out \in {{sorted[i].id} \cup rest :
                            rest \in {RefusedIds(sorted, i + 1, packer)}} : TRUE
    ELSE CHOOSE out \in
             {RefusedIds(sorted, i + 1, r.packer) :
                 r \in {pack(packer, sorted[i].w, sorted[i].h)}} : TRUE

\* C14: build_overflow on a queue of distinct identifiers always returns a
\* page and a leftover list; the identifiers on the page and those in the list
\* are disjoint and together are the queued identifiers, and an image is in
\* the list exactly when the packer refused it at its turn in the packing walk.
C14_OverflowPartitionsQueue ==
    ret.op = "build_overflow"
        => /\ ret.err = "none"
           /\ DOMAIN ret.atlas.position_data \cap IdsOf(ret.overflow) = {}
           /\ DOMAIN ret.atlas.position_data \cup IdsOf(ret.overflow) = IdsOf(queued)
           /\ IdsOf(ret.overflow) = RefusedIds(sort_by(queued), 1, PackerFor(cfg))
           /\ \A i \in 1..Len(ret.overflow) :
                  \E j \in 1..Len(queued) : ret.overflow[i] = queued[j]
           /\ Cardinality(IdsOf(ret.overflow)) = Len(ret.overflow)

\* an overflow-tolerant build that refused one image and placed a later one
C14_Witness ==
    /\ ret.op = "build_overflow"
    /\ \E i, j \in 1..Len(queued) :
           /\ i < j
           /\ sort_by(queued)[i].id \in IdsOf(ret.overflow)
           /\ sort_by(queued)[j].id \in DOMAIN ret.atlas.position_data

\* C15: every successful build of an AtlasBuilder, strict or tolerant, makes
\* exactly one device texture upload, of an image of the full page size, and
\* the Atlas returned records that page size and the handle of that upload
\* (the device numbers its textures from 1 in the order of the uploads).
C15_OneFullPageUpload ==
    (ret.op \in {"build_strict", "build_overflow"} /\ ret.err = "none")
        => /\ Len(uploads) = 1
           /\ uploads[1] = cfg.size
           /\ ret.atlas.size = cfg.size
           /\ ret.atlas.tex_id = Len(uploads)

\* a successful build whose placements do not reach the edges of the page
C15_Witness ==
    /\ ret.op \in {"build_strict", "build_overflow"}
    /\ ret.err = "none"
    /\ DOMAIN ret.atlas.position_data # {}
    /\ \A k \in DOMAIN ret.atlas.position_data :
           /\ ret.atlas.position_data[k].rect[1] + ret.atlas.position_data[k].rect[3] < cfg.size[1]
           /\ ret.atlas.position_data[k].rect[2] + ret.atlas.position_data[k].rect[4] < cfg.size[2]
    /\ uploads = <<cfg.size>>

\* C16: in every AtlasSet that AtlasSetBuilder::build produces, an identifier
\* is in the rectangle map of at most one page.
C16_IdOnOnePage ==
    \A p, q \in 1..Len(finalized) :
        p # q => DOMAIN finalized[p].position_data \cap DOMAIN finalized[q].position_data = {}

\* a finished set of two pages, with two identifiers placed
C16_Witness ==
    /\ apc = "done"
    /\ Len(finalized) = 2
    /\ Cardinality(PlacedIds(finalized)) >= 2

\* the pages of the set that hold the identifier
PagesWith(id) == {p \in 1..Len(finalized) : id \in DOMAIN finalized[p].position_data}

\* C17: AtlasSet::get_id_and_rect(id) returns the texture handle and the
\* rectangle of the first page, in creation order, whose map holds id, and
\* returns None, without failing, when no page holds it.
C17_QueryFirstPage ==
    ret.op = "get_id_and_rect"
        => /\ ret.err = "none"
           /\ IF PagesWith(ret.args[1]) = {}
              THEN ret.value = None
              ELSE \E p \in PagesWith(ret.args[1]) :
                       /\ \A q \in PagesWith(ret.args[1]) : p <= q
                       /\ ret.value = [some |-> TRUE, id |-> finalized[p].tex_id,
                                       rect |-> finalized[p].position_data[ret.args[1]]]

\* a query, of a set of two pages, for an identifier that a page holds
C17_Witness ==
    /\ ret.op = "get_id_and_rect"
    /\ Len(finalized) = 2
    /\ ret.value.some
    /\ ret.value.id = 1

\* C18: for every rectangle placed on a page, the tuple (u0, v0, u1, v1) of
\* AtlasRect::uvs has 0 <= u0 < u1 <= 1 and 0 <= v0 < v1 <= 1 for the width and
\* height of the page: over the integers, each quotient is over the page's
\* width or height and its dividends are in that order.
C18_UvsInUnitSquare ==
    \A p \in 1..Len(finalized) :
        \A k \in DOMAIN finalized[p].position_data :
            LET uv == uvs(finalized[p].position_data[k])
            IN  /\ uv[1][2] = finalized[p].size[1] /\ uv[3][2] = finalized[p].size[1]
                /\ uv[2][2] = finalized[p].size[2] /\ uv[4][2] = finalized[p].size[2]
                /\ 0 <= uv[1][1] /\ uv[1][1] < uv[3][1] /\ uv[3][1] <= finalized[p].size[1]
                /\ 0 <= uv[2][1] /\ uv[2][1] < uv[4][1] /\ uv[4][1] <= finalized[p].size[2]

\* C19: snapshots nest: with an outer snapshot, then an inner one taken after
\* further changes, and the inner released before the outer, the state after
\* the release of the inner is the state the inner was taken in, and the state
\* after the release of the outer is the state the outer was taken in.
C19_SnapshotsNest ==
    /\ scn.phase = "inner_released" => st = scn.inner
    /\ scn.phase = "outer_released" => st = scn.saved

\* C20: the release of a snapshot never fails: in no reachable state does the
\* release, or any method of the manager, borrow the shared record mutably
\* while another borrow of it is live, so no call panics on a borrow, for any
\* interleaving of manager calls, snapshot creations and snapshot releases.
C20_NoBorrowPanic ==
    /\ ~rc.panicked
    /\ rc.readers = 0
    /\ ~rc.writer

\* C21: after destroy_program(p) the record holds no uniforms keyed to p,
\* and if p was the program in use the record's program is 0 and the device
\* was told to use program 0 before it was told to delete p; the first
\* set_uniform under a program with the handle of a destroyed one uploads.
C21_DestroyProgramPurges ==
    [][/\ last'.op = "destroy_program" =>
             LET p == last'.args[1]
             IN  /\ p \notin DOMAIN st'.uniforms
                 /\ st.program = p =>
                        /\ st'.program = 0
                        /\ calls' = << [fn |-> "UseProgram", args |-> <<0>>],
                                       [fn |-> "DeleteProgram", args |-> <<p>>] >>
       /\ (/\ last'.op = "set_uniform"
           /\ st.program \in DOMAIN scn.destroyed_programs
           /\ ~scn.destroyed_programs[st.program].reused)
          => Uploads(calls', st.program, last'.args[1], last'.args[2])]_vars

\* C22: after destroy_vao(v) the record's vertex array is not v, and the
\* first bind_vao(v) after it issues BindVertexArray(v).
C22_DestroyVaoPurges ==
    [][/\ last'.op = "destroy_vao" => st'.vao # last'.args[1]
       /\ (/\ last'.op = "bind_vao"
           /\ last'.args[1] \in DOMAIN scn.destroyed_vaos
           /\ ~scn.destroyed_vaos[last'.args[1]].reused)
          => calls' = << [fn |-> "BindVertexArray", args |-> <<last'.args[1]>>] >>]_vars

\* the device call writes a field, or a group of fields that one setter
\* compares together, that differs between the record s and the record saved
Differs(s, saved, c) ==
    CASE c.fn = "UseProgram"            -> s.program # saved.program
      [] c.fn = "BindFramebuffer"       -> s.fbo # saved.fbo
      [] c.fn = "BindVertexArray"       -> s.vao # saved.vao
      [] c.fn = "BlendFuncSeparate"     -> BlendFactors(s) # BlendFactors(saved)
      [] c.fn = "BlendEquationSeparate" ->
            <<s.blend.rgb_equation, s.blend.alpha_equation>>
                # <<saved.blend.rgb_equation, saved.blend.alpha_equation>>
      [] c.fn \in {"Enable", "Disable"} ->
            CASE c.args = <<"GL_BLEND">>      -> s.blend.enabled # saved.blend.enabled
              [] c.args = <<"GL_DEPTH_TEST">> -> s.depth.enabled # saved.depth.enabled
              [] c.args = <<"GL_CULL_FACE">>  -> s.cull.enabled # saved.cull.enabled
              [] OTHER -> FALSE
      [] c.fn = "DepthMask"             -> s.depth.mask # saved.depth.mask
      [] c.fn = "CullFace"              -> s.cull.face # saved.cull.face
      [] OTHER -> FALSE

\* C29: the release of a snapshot issues no device call when the record
\* equals the saved one, and every device call it issues is for a field whose
\* value in the record differs from the saved value.
C29_ReleaseCallsOnlyForChanges ==
    [][(last'.op = "set_state" /\ Len(snaps') < Len(snaps))
       => LET saved == last'.args[1]
          IN  /\ st = saved => calls' = <<>>
              /\ \A i \in 1..Len(calls') : Differs(st, saved, calls'[i])]_vars

\* the inner snapshot has been released with the record as it was when the
\* snapshot was taken, and the release issued no device call
C29_Witness ==
    /\ scn.phase = "inner_released"
    /\ last.op = "set_state"
    /\ last.args[1] = scn.inner
    /\ st = scn.inner
    /\ calls = <<>>

\* the index of the texture with this id in a queue
PositionIn(q, id) == CHOOSE i \in 1..Len(q) : q[i].id = id

\* seq lists textures of the queue by descending area, and textures of equal
\* area in the order the queue has them
InFeedOrder(seq, queue) ==
    \A i, j \in 1..Len(seq) :
        i < j => \/ seq[i].w * seq[i].h > seq[j].w * seq[j].h
                 \/ /\ seq[i].w * seq[i].h = seq[j].w * seq[j].h
                    /\ PositionIn(queue, seq[i].id) < PositionIn(queue, seq[j].id)

\* C23: the sequence AtlasBuilder::build walks holds every queued texture
\* once, by descending pixel area, textures of equal area in the order they
\* were added; the textures build_overflow returns are in that order too.
C23_FedByDescendingArea ==
    ab.pc = "built" =>
        LET fed == sort_by(queued)
        IN  /\ Len(fed) = Len(queued)
            /\ {fed[i] : i \in 1..Len(fed)} = {queued[i] : i \in 1..Len(queued)}
            /\ InFeedOrder(fed, queued)
            /\ (ret.op = "build_overflow" /\ ret.err = "none")
                   => InFeedOrder(ret.overflow, queued)

\* a build of three textures that were added out of order, two of them of
\* the same area with a larger one added between them
C23_Witness ==
    /\ ab.pc = "built"
    /\ Len(queued) = 3
    /\ queued[1].w * queued[1].h = queued[3].w * queued[3].h
    /\ queued[2].w * queued[2].h > queued[1].w * queued[1].h
    /\ sort_by(queued) = <<queued[2], queued[1], queued[3]>>
    /\ ret.op = "build_overflow"
    /\ ret.err = "none"
    /\ ret.overflow = <<queued[1], queued[3]>>

\* C24: the walk places no id twice.  A build that succeeds has placed or
\* returned as overflow every texture of the queue, each placement under an
\* id of its own; a queue whose first texture in walking order fits the
\* empty page and shares its id with a later one makes the build fail, with
\* DuplicateId when overflow is tolerated; and DuplicateId is reported for
\* no queue of distinct ids.
C24_NoIdPlacedTwice ==
    (ab.pc = "built" /\ queued # <<>>) =>
        LET fed == sort_by(queued)
        IN  /\ (ret.err = "none" /\ ret.op = "build_overflow") =>
                   Cardinality(DOMAIN ret.atlas.position_data) + Len(ret.overflow)
                       = Len(queued)
            /\ (ret.err = "none" /\ ret.op = "build_strict") =>
                   Cardinality(DOMAIN ret.atlas.position_data) = Len(queued)
            /\ (/\ FitsEmptyPage(fed[1], cfg)
                /\ \E j \in 2..Len(fed) : fed[j].id = fed[1].id)
               => /\ ret.err # "none"
                  /\ ret.op = "build_overflow" => ret.err = "DuplicateId"
            /\ ret.err = "DuplicateId" =>
                   \E i, j \in 1..Len(fed) : i < j /\ fed[i].id = fed[j].id

\* a tolerant build of a queue that holds an id twice, the first of the two
\* placed, has failed with DuplicateId and uploaded nothing
C24_Witness ==
    /\ ab.pc = "built"
    /\ ret.op = "build_overflow"
    /\ ret.err = "DuplicateId"
    /\ Len(queued) = 3
    /\ queued[1].id = queued[3].id
    /\ queued[1].id # queued[2].id
    /\ FitsEmptyPage(sort_by(queued)[1], cfg)
    /\ uploads = <<>>

\* C25: when AtlasSetBuilder::build is given a queue that is not empty and
\* whose textures each fit an empty page, every iteration of its loop places
\* at least one texture on the page it builds, so that fewer textures are
\* unplaced after the iteration than before it.
C25_EveryIterationPlaces ==
    [][(/\ Len(finalized') = Len(finalized) + 1
        /\ queued # <<>>
        /\ AllFitEmptyPage(queued))
       => /\ DOMAIN finalized'[Len(finalized')].position_data # {}
          /\ Cardinality(QueuedIds \ PlacedIds(finalized'))
                 < Cardinality(QueuedIds \ PlacedIds(finalized))]_vars

\* C28: MatrixStack::pop panics exactly when as many pops as pushes have
\* been made before it, that is when no push is left unmatched; a pop that
\* returns makes the matrix of the push it matches the current one again.
C28_PopPanicsOnUnderflow ==
    [][mhist'.pops = mhist.pops + 1
       => /\ (ret'.err = "panic") <=> (mhist.pops >= mhist.pushes)
          /\ ret'.err = "none" =>
                 /\ Len(ms'.stack) = Len(ms.stack) - 1
                 /\ ms'.current = ms.stack[Len(ms.stack)]]_vars

\* a push and its pop have returned, and the pop after them has panicked
C28_Witness ==
    /\ ret.op = "MatrixStack::pop"
    /\ ret.err = "panic"
    /\ mhist.pushes >= 1
    /\ mhist.pops = mhist.pushes + 1

\* C30: an instanced mesh dropped, outside of an unwinding, without a
\* destroy() before panics, one destroyed before drops without a panic, and
\* when it has been dropped the device has been asked once to delete its
\* buffers and once to delete its vertex array, however often destroy() was
\* called.
C30_DeletedExactlyOnce ==
    (im.pc = "dropped" /\ ret.args = <<FALSE>>) =>
        /\ (ret.err = "panic") <=> (mhist.destroys = 0)
        /\ mhist.buffer_deletes = 1
        /\ mhist.vao_deletes = 1

\* the floats submitted to the builder: those of the vertices pushed and
\* those of the vertex being built
Submitted(b) ==
    b.data \o Concat([i \in 1..Len(b.current_vertex.parts) |-> b.current_vertex.parts[i].values])

\* C27: BufferBuilder::set_value on a builder of an arbitrary format, after
\* any add_vertex and set_value calls, never panics: it returns InvalidName
\* for a name the format does not have, ExpectedSize for a value of the
\* wrong length, and otherwise sets the attribute and returns Ok.
C27_SetValueReturnsErrors ==
    [][(ret'.op = "BufferBuilder::set_value" /\ mhist'.n = mhist.n + 1)
       => LET attr  == ret'.args[1]
              value == ret'.args[2]
              named == {i \in 1..Len(bb.format.attributes) : bb.format.attributes[i][1] = attr}
          IN  /\ ret'.err \in {"none", "InvalidName", "ExpectedSize"}
              /\ named = {} => ret'.err = "InvalidName"
              /\ ret'.err = "none" => Len(Submitted(bb')) = Len(Submitted(bb)) + Len(value)
              /\ ret'.err # "none" => bb' = bb]_vars

\* the device and the record of the manager are as they were and no device
\* call has been issued
NothingDone == calls' = <<>> /\ st' = st /\ dev' = dev

\* C26: a render of floats that do not make whole vertices, or of vertices
\* that do not make whole triangles, returns MalformedData or
\* IncompleteTriangleData with no device call issued and the record of the
\* manager unchanged, for VertexRenderer::render and for BufferBuilder::render.
C26_RenderRejectsBeforeDevice ==
    [][/\ (ret'.op = "VertexRenderer::render" /\ mhist'.n = mhist.n + 1) =>
             LET len == Len(vr.buffer)
                 vstride == vr.layout.stride
             IN  /\ len % vstride # 0 => ret'.err = "MalformedData" /\ NothingDone
                 /\ (len % vstride = 0 /\ (len \div vstride) % 3 # 0)
                        => ret'.err = "IncompleteTriangleData" /\ NothingDone
       /\ (ret'.op = "BufferBuilder::render" /\ mhist'.n = mhist.n + 1) =>
             LET len == Len(Submitted(bb))
                 bstride == stride(bb.format)
             IN  (len % bstride # 0 \/ (len \div bstride) % 3 # 0)
                    => /\ ret'.err \in {"MalformedData", "IncompleteTriangleData"}
                       /\ NothingDone]_vars

\* the blend factors the device holds, in the order source RGB, source
\* alpha, destination RGB, destination alpha
DeviceFactors(d) ==
    <<d.blend_src_rgb, d.blend_src_alpha, d.blend_dst_rgb, d.blend_dst_alpha>>

\* C31: after blend_func_separate(src_rgb, src_alpha, dst_rgb, dst_alpha)
\* with values that differ from the cache, the device holds src_rgb as its
\* source-RGB factor, dst_rgb as its destination-RGB factor, src_alpha as
\* its source-alpha factor and dst_alpha as its destination-alpha factor.
C31_SeparateFactorsInTheirRoles ==
    [][(/\ last'.op = "blend_func_separate"
        /\ nops' = nops + 1
        /\ BlendFactors(st) # last'.args)
       => DeviceFactors(dev') = <<SrcRgb_to_gl(last'.args[1]), BlendFactor_to_gl(last'.args[2]),
                                  BlendFactor_to_gl(last'.args[3]), BlendFactor_to_gl(last'.args[4])>>]_vars

\* C32: blend_func_rgb(src_rgb, dst_rgb) leaves the source-alpha and the
\* destination-alpha factor as they were, in the cache and on the device.
C32_RgbLeavesAlpha ==
    [][(last'.op = "blend_func_rgb" /\ nops' = nops + 1)
       => /\ st'.blend.src_alpha = st.blend.src_alpha
          /\ st'.blend.dst_alpha = st.blend.dst_alpha
          /\ dev'.blend_src_alpha = dev.blend_src_alpha
          /\ dev'.blend_dst_alpha = dev.blend_dst_alpha]_vars

\* C33: the program the record holds as current is never a program that
\* destroy_program has destroyed, whatever use_program, destroy_program,
\* snapshot and release of a snapshot came before.
C33_CurrentProgramNotDestroyed == st.program \notin DOMAIN scn.destroyed_programs

\* C34: snapshot() and copy_state() issue no device call and leave the
\* record of the manager and the device as they were; the copy a snapshot
\* saves is the record at that moment, and no later call of the manager
\* alters the copy a live snapshot holds.
C34_SnapshotIsACopy ==
    [][/\ (last'.op \in {"snapshot", "copy_state"} /\ nops' = nops + 1)
          => calls' = <<>> /\ st' = st /\ dev' = dev
       /\ Len(snaps') > Len(snaps) => snaps' = Append(snaps, st)
       /\ Len(snaps') = Len(snaps) => snaps' = snaps]_vars

\* a snapshot is live and a call of the manager has since changed the record
C34_Witness ==
    /\ Len(snaps) > 0
    /\ last.op \in Mutators
    /\ calls # <<>>
    /\ st # snaps[1]

\* the rectangle lies inside the page of the given size
InsidePage(size, rect) ==
    /\ rect[1] + rect[3] <= size[1]
    /\ rect[2] + rect[4] <= size[2]

\* C35: every rectangle recorded in an Atlas that AtlasBuilder::build
\* returns lies wholly inside the page, x + width <= page width and
\* y + height <= page height, and its width and height are those of the
\* image queued under its id.
C35_RectInsidePageWithImageSize ==
    (ret.op \in {"build_strict", "build_overflow"} /\ ret.err = "none")
    => \A id \in DOMAIN ret.atlas.position_data :
           LET r == ret.atlas.position_data[id].rect
           IN  /\ InsidePage(ret.atlas.size, r)
               /\ \E i \in 1..Len(queued) :
                      queued[i].id = id /\ r[3] = queued[i].w /\ r[4] = queued[i].h

\* an atlas with several placements, one of them of an image that is not
\* square, placed away from the left edge and reaching the right edge
C35_Witness ==
    /\ ret.op \in {"build_strict", "build_overflow"}
    /\ ret.err = "none"
    /\ Cardinality(DOMAIN ret.atlas.position_data) >= 2
    /\ \E id \in DOMAIN ret.atlas.position_data :
           LET r == ret.atlas.position_data[id].rect
           IN  r[3] # r[4] /\ r[1] > 0 /\ r[1] + r[3] = ret.atlas.size[1]

\* C36: as long as no call on a BufferBuilder has panicked, the length of
\* its accumulated data is a multiple of the stride of its format, whatever
\* add_vertex, set_color, set_normal, set_uv, set_value and render calls
\* were made.
C36_DataIsWholeVertices ==
    (bb.pc = "live" /\ ~Aborted) => Len(bb.data) % stride(bb.format) = 0

\* the data holds a vertex of more than one part, and the next vertex has
\* been started and is not complete
C36_Witness ==
    /\ bb.pc = "live"
    /\ ~Aborted
    /\ Len(bb.data) > 0
    /\ Len(bb.current_vertex.parts) >= 2
    /\ is_started(bb.current_vertex)
    /\ ~is_complete(bb.current_vertex)

\* C37: a pop that returns makes the current matrix exactly the one that was
\* current at the push it matches, whatever translate, scale, rotate and
\* multiply calls came between the two, and leaves the stack as deep as it
\* was before that push.
C37_PopRestoresMatchingPush ==
    [][(mhist'.pops = mhist.pops + 1 /\ ret'.err = "none")
       => /\ mhist.saved # <<>>
          /\ ms'.current = mhist.saved[Len(mhist.saved)].current
          /\ Len(ms'.stack) = mhist.saved[Len(mhist.saved)].depth]_vars

\* the pop of an inner pair has returned, the current matrix having been
\* multiplied between the push and the pop
C37_Witness ==
    /\ ret.op = "MatrixStack::pop"
    /\ ret.err = "none"
    /\ mhist.restored_changed
    /\ Len(ms.stack) >= 1

\* the data the device was given by the BufferData calls of a log
Uploaded(log) ==
    LET given == SelectSeq(log, LAMBDA c : c.fn = "BufferData")
    IN  [i \in 1..Len(given) |-> given[i].args[3]]

\* C38: VertexRenderer::render leaves the buffer of the renderer empty in
\* every outcome, when it draws and when it returns MalformedData or
\* IncompleteTriangleData; a render that draws gives the device the floats
\* put since the render before it and nothing else.
C38_RenderConsumesBuffer ==
    [][(ret'.op = "VertexRenderer::render" /\ mhist'.n = mhist.n + 1)
       => /\ vr'.buffer = <<>>
          /\ ret'.err = "none" => Uploaded(calls') = <<vr.buffer>>
          /\ ret'.err # "none" => Uploaded(calls') = <<>>]_vars

\* a render has returned MalformedData or IncompleteTriangleData for floats
\* that had been put, the sixteen of a put_mat4 among them, and the buffer is
\* empty
C38_Witness ==
    /\ ret.op = "VertexRenderer::render"
    /\ ret.err \in {"MalformedData", "IncompleteTriangleData"}
    /\ mhist.n >= 2
    /\ Len(mhist.found) >= 16
    /\ SubSeq(mhist.found, Len(mhist.found) - 15, Len(mhist.found)) \in
           {to_cols_array(mat) : mat \in {Mat4Mul(from_translation(3), from_scale(2))}}
    /\ vr.buffer = <<>>
=============================================================================
